---- MODULE Spec2Model ----
(***************************************************************************)
(* Model of the DD2977 (DRAW) extraction engine:                           *)
(*   backend/app/services/parse_draw.py                                    *)
(*   backend/app/services/batch_parse_conops_draws.py                      *)
(*                                                                         *)
(* Python strings are TLA+ strings; the character at position i of s is    *)
(* SubSeq(s, i, i).  Python's None is the reserved string None, which no   *)
(* input of the model contains.                                            *)
(***************************************************************************)
EXTENDS Integers, Sequences, FiniteSets, TLC

None == "<None>"

\* Sub(s, i, j): the slice s[i-1:j] of the Python string s (clamped to s).
Sub(s, i, j) ==
    LET lo == IF i < 1 THEN 1 ELSE i
        hi == IF j > Len(s) THEN Len(s) ELSE j
    IN  IF lo > hi THEN "" ELSE SubSeq(s, lo, hi)

\* Ch(s, i): the character s[i-1], "" outside s.
Ch(s, i) == IF i >= 1 /\ i <= Len(s) THEN SubSeq(s, i, i) ELSE ""

LowerAlphabet == "abcdefghijklmnopqrstuvwxyz"
UpperAlphabet == "ABCDEFGHIJKLMNOPQRSTUVWXYZ"
Digits == {"0", "1", "2", "3", "4", "5", "6", "7", "8", "9"}

IsLowerCh(c) == \E i \in 1..26 : Ch(LowerAlphabet, i) = c
IsUpperCh(c) == \E i \in 1..26 : Ch(UpperAlphabet, i) = c
IsAlnumLower(c) == IsLowerCh(c) \/ c \in Digits

UpperCh(c) ==
    IF IsLowerCh(c)
    THEN Ch(UpperAlphabet, CHOOSE i \in 1..26 : Ch(LowerAlphabet, i) = c)
    ELSE c

LowerCh(c) ==
    IF IsUpperCh(c)
    THEN Ch(LowerAlphabet, CHOOSE i \in 1..26 : Ch(UpperAlphabet, i) = c)
    ELSE c

MinOf(S) == CHOOSE i \in S : \A j \in S : i <= j
MaxOf(S) == CHOOSE i \in S : \A j \in S : i >= j

\* The k-th smallest element of a set of integers.
Kth(S, k) == CHOOSE i \in S : Cardinality({j \in S : j <= i}) = k

\* "".join(pieces), by halving so that long texts need no deep recursion.
RECURSIVE ConcatRange(_, _, _)
ConcatRange(pieces, lo, hi) ==
    IF lo > hi THEN ""
    ELSE IF lo = hi THEN pieces[lo]
    ELSE LET mid == (lo + hi) \div 2
         IN  ConcatRange(pieces, lo, mid) \o ConcatRange(pieces, mid + 1, hi)

Concat(pieces) == ConcatRange(pieces, 1, Len(pieces))

\* The concatenation of a sequence of sequences.
RECURSIVE FlattenRange(_, _, _)
FlattenRange(lists, lo, hi) ==
    IF lo > hi THEN <<>>
    ELSE IF lo = hi THEN lists[lo]
    ELSE LET mid == (lo + hi) \div 2
         IN  FlattenRange(lists, lo, mid) \o FlattenRange(lists, mid + 1, hi)

Flatten(lists) == FlattenRange(lists, 1, Len(lists))

\* str.upper() and str.lower()
Upper(s) == Concat([i \in 1..Len(s) |-> UpperCh(Ch(s, i))])
Lower(s) == Concat([i \in 1..Len(s) |-> LowerCh(Ch(s, i))])

\* The characters str.strip() and the regex class \s remove or match.
IsSpace(c) == c \in {" ", "\t", "\n", "\r"}

\* The first position >= i that holds no whitespace (Len(s) + 1 when none).
SkipWs(s, i) ==
    LET stops == {j \in i..Len(s) : ~IsSpace(Ch(s, j))}
    IN  IF stops = {} THEN (IF i > Len(s) THEN i ELSE Len(s) + 1) ELSE MinOf(stops)

LStrip(s) == Sub(s, SkipWs(s, 1), Len(s))

RStrip(s) ==
    LET keep == {j \in 1..Len(s) : ~IsSpace(Ch(s, j))}
    IN  IF keep = {} THEN "" ELSE Sub(s, 1, MaxOf(keep))

\* str.strip()
Strip(s) == RStrip(LStrip(s))

\* s.startswith(p), s.endswith(p), p in s
StartsWith(s, p) == Len(p) <= Len(s) /\ Sub(s, 1, Len(p)) = p
EndsWith(s, p) == Len(p) <= Len(s) /\ Sub(s, Len(s) - Len(p) + 1, Len(s)) = p
Contains(s, p) == \E i \in 1..(Len(s) - Len(p) + 1) : Sub(s, i, i + Len(p) - 1) = p

\* s[n:] of Python
From(s, n) == Sub(s, n + 1, Len(s))

\* re.sub(r"\s+", " ", s): every run of whitespace becomes one space.
CollapseWs(s) ==
    Concat([i \in 1..Len(s) |->
        IF ~IsSpace(Ch(s, i)) THEN Ch(s, i)
        ELSE IF i > 1 /\ IsSpace(Ch(s, i - 1)) THEN "" ELSE " "])

\* The pieces of s between the positions in cuts (each cut is one character).
PiecesAt(s, cuts) ==
    [k \in 1..(Cardinality(cuts) + 1) |->
        Sub(s, (IF k = 1 THEN 0 ELSE Kth(cuts, k - 1)) + 1,
               (IF k > Cardinality(cuts) THEN Len(s) + 1 ELSE Kth(cuts, k)) - 1)]

\* s.split(sep) for a one-character separator: the list of the pieces.
SplitOn(s, sep) == PiecesAt(s, {i \in 1..Len(s) : Ch(s, i) = sep})

\* The maximal runs of characters of s that are not in seps.
Tokens(s, seps) ==
    LET starts == {i \in 1..Len(s) : Ch(s, i) \notin seps /\ (i = 1 \/ Ch(s, i - 1) \in seps)}
        stopAfter(i) == MinOf({j \in i..Len(s) : j = Len(s) \/ Ch(s, j + 1) \in seps})
    IN  [k \in 1..Cardinality(starts) |-> Sub(s, Kth(starts, k), stopAfter(Kth(starts, k)))]

WsChars == {" ", "\t", "\n", "\r"}

\* s.split(): the maximal runs of non-whitespace characters.
Words(s) == Tokens(s, WsChars)

\* sep.join(list)
Join(list, sep) == Concat([i \in 1..Len(list) |-> (IF i > 1 THEN sep ELSE "") \o list[i]])

(***************************************************************************)
(* Text acquisition: PyMuPDF -> pdfminer -> OCR                            *)
(***************************************************************************)

\* t.replace("\r", "\n")
FoldCr(s) == Concat([i \in 1..Len(s) |-> IF Ch(s, i) = "\r" THEN "\n" ELSE Ch(s, i)])

IsBlank(c) == c \in {" ", "\t"}

\* re.sub(r"[ \t]+", " ", t)
CollapseBlanks(s) ==
    Concat([i \in 1..Len(s) |->
        IF ~IsBlank(Ch(s, i)) THEN Ch(s, i)
        ELSE IF i > 1 /\ IsBlank(Ch(s, i - 1)) THEN "" ELSE " "])

\* re.sub(r"\n{3,}", "\n\n", t): of a run of newlines the first two are kept
CollapseNewlines(s) ==
    Concat([i \in 1..Len(s) |->
        IF Ch(s, i) = "\n" /\ Ch(s, i - 1) = "\n" /\ Ch(s, i - 2) = "\n" THEN "" ELSE Ch(s, i)])

normalize_text(t) == CollapseNewlines(CollapseBlanks(FoldCr(t)))

(***************************************************************************)
(* Values decoded from the XFA dataset: a Python str, dict (its items in   *)
(* insertion order), list or None, each tagged with its type.              *)
(***************************************************************************)
PNone == [t |-> "none", s |-> "", items |-> <<>>]
PStr(s) == [t |-> "str", s |-> s, items |-> <<>>]
PList(items) == [t |-> "list", s |-> "", items |-> items]
\* items: a sequence of [k |-> key, v |-> value] with distinct keys
PDict(items) == [t |-> "dict", s |-> "", items |-> items]

IsDict(o) == o.t = "dict"
IsList(o) == o.t = "list"

\* bool(o)
Truthy(o) ==
    CASE o.t = "none" -> FALSE
      [] o.t = "str" -> o.s # ""
      [] OTHER -> o.items # <<>>

\* a or b
Or(a, b) == IF Truthy(a) THEN a ELSE b

HasKey(d, key) == \E i \in 1..Len(d.items) : d.items[i].k = key

\* d.get(key)
Get(d, key) ==
    IF HasKey(d, key)
    THEN d.items[CHOOSE i \in 1..Len(d.items) : d.items[i].k = key].v
    ELSE PNone

\* list(d.values())
Values(d) == [i \in 1..Len(d.items) |-> d.items[i].v]

RECURSIVE _coerce_to_string(_)
RECURSIVE CoerceFirst(_)
\* the first non-empty result of _coerce_to_string over the values, else None
CoerceFirst(vals) ==
    IF vals = <<>> THEN None
    ELSE LET r == _coerce_to_string(Head(vals)) IN
         IF r # None /\ r # "" THEN r ELSE CoerceFirst(Tail(vals))

_coerce_to_string(value) ==
    CASE value.t = "none" -> None
      [] value.t = "str" -> (IF Strip(value.s) = "" THEN None ELSE Strip(value.s))
      [] value.t = "dict" -> CoerceFirst(Values(value))
      [] OTHER -> CoerceFirst(value.items)

\* Pieces of re.split(r"[\r\n]+", text): each run of line breaks is one cut
SplitLineBreaks(s) ==
    LET IsBreak(c) == c \in {"\r", "\n"}
        runStarts == {i \in 1..Len(s) : IsBreak(Ch(s, i)) /\ ~IsBreak(Ch(s, i - 1))}
        runEnd(i) == MinOf({j \in i..Len(s) : ~IsBreak(Ch(s, j + 1))})
    IN  [k \in 1..(Cardinality(runStarts) + 1) |->
            Sub(s, (IF k = 1 THEN 0 ELSE runEnd(Kth(runStarts, k - 1))) + 1,
                   (IF k > Cardinality(runStarts) THEN Len(s) + 1 ELSE Kth(runStarts, k)) - 1)]

\* re.sub(r"^[*\-]+\s*", "", fragment)  (the bullet characters of the model)
DropBullets(s) ==
    LET stops == {j \in 1..Len(s) : Ch(s, j) \notin {"*", "-"}}
    IN  IF stops = {} THEN "" ELSE Sub(s, MinOf(stops), Len(s))

StripLeadingBullets(s) == IF DropBullets(s) = s THEN s ELSE LStrip(DropBullets(s))

RECURSIVE CleanFragments(_)
CleanFragments(parts) ==
    IF parts = <<>> THEN <<>>
    ELSE LET fragment == Strip(Head(parts))
             cleaned == CollapseWs(StripLeadingBullets(fragment))
         IN  (IF fragment = "" \/ cleaned = "" THEN <<>> ELSE <<cleaned>>)
                 \o CleanFragments(Tail(parts))

\* text: a string or None
_split_multiline(text) ==
    IF text = None \/ text = "" THEN <<>> ELSE CleanFragments(SplitLineBreaks(text))

(***************************************************************************)
(* Risk normalizer                                                         *)
(***************************************************************************)
\* A table that takes "very high" for the top level.
VeryHighIsExtreme ==
    [k \in {"EXTREMELY HIGH", "VERY HIGH", "HIGH", "MEDIUM", "MED", "LOW",
            "MODERATE", "NEGLIGIBLE"} |->
        CASE k \in {"EXTREMELY HIGH", "VERY HIGH"} -> "EH"
          [] k = "HIGH" -> "H"
          [] k \in {"MEDIUM", "MED", "MODERATE"} -> "M"
          [] OTHER -> "L"]

RiskWordMapping ==
    [k \in {"EXTREMELY HIGH", "VERY HIGH", "HIGH", "MEDIUM", "MED", "LOW",
            "MODERATE", "NEGLIGIBLE"} |->
        CASE k = "EXTREMELY HIGH" -> "EH"
          [] k \in {"VERY HIGH", "HIGH"} -> "H"
          [] k \in {"MEDIUM", "MED", "MODERATE"} -> "M"
          [] OTHER -> "L"]

NumericMap == [k \in {"0", "1", "2", "3"} |->
                 CASE k = "0" -> "L" [] k = "1" -> "M" [] k = "2" -> "H" [] OTHER -> "EH"]

CanonicalCodes == {"EH", "H", "M", "L"}

\* the mapping of a raw value and its upper case to a level
RiskLevelOf(raw, raw_upper) ==
    IF raw = None \/ raw = "" THEN None
    ELSE IF raw_upper \in DOMAIN RiskWordMapping THEN RiskWordMapping[raw_upper]
    ELSE IF raw \in DOMAIN NumericMap THEN NumericMap[raw]
    ELSE IF raw_upper \in CanonicalCodes THEN raw_upper
    ELSE raw

_normalize_risk_level(value) ==
    RiskLevelOf(_coerce_to_string(value), Upper(_coerce_to_string(value)))

IsMarkedText(raw) ==
    IF raw = None \/ raw = "" THEN FALSE
    ELSE Lower(Strip(raw)) \in {"1", "x", "true", "checked", "yes", "on"}

_is_marked(value) == IsMarkedText(_coerce_to_string(value))

(***************************************************************************)
(* XFA dataset: XML element -> Python objects                              *)
(* An element is [tag, text, kids]; text is a string or None.              *)
(***************************************************************************)
Elem(tag, text, kids) == [tag |-> tag, text |-> text, kids |-> kids]

\* child.tag.split("}")[-1]
LocalTag(tag) == LET parts == SplitOn(tag, "}") IN parts[Len(parts)]

\* A bucket that wraps the earlier list again on every repetition.
PromoteAlways(bucket, tag, payload) ==
    IF \E i \in 1..Len(bucket) : bucket[i].k = tag
    THEN LET i == CHOOSE j \in 1..Len(bucket) : bucket[j].k = tag
         IN  [bucket EXCEPT ![i] = [k |-> tag, v |-> PList(<<bucket[i].v, payload>>)]]
    ELSE Append(bucket, [k |-> tag, v |-> payload])

\* bucket[tag] = payload, or promotion to a list on a repeated tag
BucketPut(bucket, tag, payload) ==
    IF \E i \in 1..Len(bucket) : bucket[i].k = tag
    THEN LET i == CHOOSE j \in 1..Len(bucket) : bucket[j].k = tag
             old == bucket[i].v
             asList == IF IsList(old) THEN old.items ELSE <<old>>
         IN  [bucket EXCEPT ![i] = [k |-> tag, v |-> PList(Append(asList, payload))]]
    ELSE Append(bucket, [k |-> tag, v |-> payload])

RECURSIVE _xml_node_to_obj(_)
RECURSIVE XmlBucket(_, _)
XmlBucket(children, bucket) ==
    IF children = <<>> THEN bucket
    ELSE XmlBucket(Tail(children),
                   BucketPut(bucket, LocalTag(Head(children).tag),
                             _xml_node_to_obj(Head(children))))

_xml_node_to_obj(node) ==
    IF node.kids = <<>>
    THEN PStr(Strip(IF node.text = None THEN "" ELSE node.text))
    ELSE PDict(XmlBucket(node.kids, <<>>))

(***************************************************************************)
(* float(s), int(x), str(n) of Python, as far as calculate_overall_risk    *)
(* uses them.  A float is [kind, neg, m, sc]: kind "num" is the number     *)
(* (-1)^neg * m / 10^sc (sc may be negative); kinds "nan" and "inf".       *)
(***************************************************************************)
RECURSIVE Pow10(_)
Pow10(n) == IF n <= 0 THEN 1 ELSE 10 * Pow10(n - 1)

DigitVal(c) == CHOOSE d \in 0..9 : Ch("0123456789", d + 1) = c

\* digit ("_"? digit)*
IsDigitPart(s) ==
    /\ s # ""
    /\ Head(s) \in Digits
    /\ Ch(s, Len(s)) \in Digits
    /\ \A i \in 1..Len(s) : Ch(s, i) \in Digits \cup {"_"}
    /\ \A i \in 1..(Len(s) - 1) : ~(Ch(s, i) = "_" /\ Ch(s, i + 1) = "_")

DigitsOnly(s) == Concat([i \in 1..Len(s) |-> IF Ch(s, i) = "_" THEN "" ELSE Ch(s, i)])

RECURSIVE NatOf(_)
NatOf(ds) == IF ds = "" THEN 0 ELSE 10 * NatOf(Sub(ds, 1, Len(ds) - 1)) + DigitVal(Ch(ds, Len(ds)))

RECURSIVE NatToStr(_)
NatToStr(n) == IF n < 10 THEN Ch("0123456789", n + 1)
               ELSE NatToStr(n \div 10) \o Ch("0123456789", (n % 10) + 1)

\* str(n) of an integer
IntToStr(n) == IF n < 0 THEN "-" \o NatToStr(0 - n) ELSE NatToStr(n)

NotAFloat == [kind |-> "error", neg |-> FALSE, m |-> 0, sc |-> 0]

\* float(s) for s already stripped and upper-cased; NotAFloat is ValueError.
Unsigned(t) == IF t # "" /\ Head(t) \in {"+", "-"} THEN Tail(t) ELSE t

\* the position of the first c in t, Len(t) + 1 without one
FirstOf(t, c) == MinOf({k \in 1..(Len(t) + 1) : k = Len(t) + 1 \/ Ch(t, k) = c})

\* the exponent from its sign and digits: whether it is well formed, and its value
ExponentValue(negative, expDigits) ==
    [ok |-> IsDigitPart(expDigits),
     val |-> IF ~IsDigitPart(expDigits) THEN 0
             ELSE IF negative THEN 0 - NatOf(DigitsOnly(expDigits))
             ELSE NatOf(DigitsOnly(expDigits))]

\* e: the exponent with its "E", "" when there is none
Exponent(e) ==
    IF e = "" THEN [ok |-> TRUE, val |-> 0]
    ELSE ExponentValue(Ch(e, 2) = "-", Unsigned(Tail(e)))

\* the mantissa from its integer and fraction parts
MantissaParts(ip, fp) ==
    [ok |-> /\ (ip = "" \/ IsDigitPart(ip))
            /\ (fp = "" \/ IsDigitPart(fp))
            /\ (ip # "" \/ fp # ""),
     ip |-> ip, fp |-> fp]

MantissaAt(mant, dPos) == MantissaParts(Sub(mant, 1, dPos - 1), From(mant, dPos))

Mantissa(mant) == MantissaAt(mant, FirstOf(mant, "."))

FloatOf(neg, body, man, ex) ==
    IF body \in {"INF", "INFINITY"} THEN [kind |-> "inf", neg |-> neg, m |-> 0, sc |-> 0]
    ELSE IF body = "NAN" THEN [kind |-> "nan", neg |-> neg, m |-> 0, sc |-> 0]
    ELSE IF man.ok /\ ex.ok
    THEN [kind |-> "num", neg |-> neg,
          m |-> NatOf(DigitsOnly(man.ip) \o DigitsOnly(man.fp)),
          sc |-> Len(DigitsOnly(man.fp)) - ex.val]
    ELSE NotAFloat

FloatAt(neg, body, ePos) ==
    FloatOf(neg, body, Mantissa(Sub(body, 1, ePos - 1)), Exponent(From(body, ePos - 1)))

FloatBody(neg, body) == FloatAt(neg, body, FirstOf(body, "E"))

ParseFloat(s) == FloatBody(s # "" /\ Head(s) = "-", Unsigned(s))

\* a > b on floats (every comparison with a nan is false)
FloatGt(a, b) ==
    LET sc == IF a.sc > b.sc THEN a.sc ELSE b.sc
        val(f) == (IF f.neg THEN 0 - 1 ELSE 1) * f.m * Pow10(sc - f.sc)
    IN  CASE a.kind = "nan" \/ b.kind = "nan" -> FALSE
          [] a.kind = "inf" -> ~a.neg /\ ~(b.kind = "inf" /\ ~b.neg)
          [] b.kind = "inf" -> b.neg
          [] OTHER -> val(a) > val(b)

\* max(list): the first element is kept until a later one compares greater
RECURSIVE FloatMax(_, _)
FloatMax(best, rest) ==
    IF rest = <<>> THEN best
    ELSE FloatMax(IF FloatGt(Head(rest), best) THEN Head(rest) ELSE best, Tail(rest))

RaiseValueError == "<ValueError>"
RaiseOverflowError == "<OverflowError>"
IsRaise(r) == r \in {RaiseValueError, RaiseOverflowError}

\* str(int(f)): truncation toward zero; int(nan) and int(inf) raise
StrIntOfFloat(f) ==
    CASE f.kind = "nan" -> RaiseValueError
      [] f.kind = "inf" -> RaiseOverflowError
      [] OTHER ->
          LET mag == IF f.sc >= 0 THEN f.m \div Pow10(f.sc) ELSE f.m * Pow10(0 - f.sc)
          IN  IntToStr(IF f.neg THEN 0 - mag ELSE mag)

RiskOrder == [k \in CanonicalCodes |->
                CASE k = "EH" -> 4 [] k = "H" -> 3 [] k = "M" -> 2 [] OTHER -> 1]

\* An aggregate that takes the first categorical level instead of the largest.
FirstCategorical(best, rest) == best

\* max(list, key=risk_order): the first element of maximal rank
RECURSIVE MaxByRiskOrder(_, _)
MaxByRiskOrder(best, rest) ==
    IF rest = <<>> THEN best
    ELSE MaxByRiskOrder(IF RiskOrder[Head(rest)] > RiskOrder[best] THEN Head(rest) ELSE best,
                        Tail(rest))

RECURSIVE CleanRisks(_)
\* [r.strip().upper() for r in residual_risks if r and r.strip()]
CleanRisks(rs) ==
    IF rs = <<>> THEN <<>>
    ELSE (IF Head(rs) # None /\ Strip(Head(rs)) # "" THEN <<Upper(Strip(Head(rs)))>> ELSE <<>>)
             \o CleanRisks(Tail(rs))

RECURSIVE NumericRisks(_)
\* except ValueError: continue
KeptFloat(f) == IF f = NotAFloat THEN <<>> ELSE <<f>>

NumericRisks(rs) ==
    IF rs = <<>> THEN <<>>
    ELSE KeptFloat(ParseFloat(Head(rs))) \o NumericRisks(Tail(rs))

\* residual_risks: a list of strings and None.  The result is a string, None,
\* or the exception int() raises.
LargestRisk(categorical_risks, numeric_risks) ==
    IF categorical_risks # <<>>
    THEN MaxByRiskOrder(Head(categorical_risks), Tail(categorical_risks))
    ELSE IF numeric_risks # <<>>
    THEN StrIntOfFloat(FloatMax(Head(numeric_risks), Tail(numeric_risks)))
    ELSE None

ClassifiedRisk(clean_risks) ==
    LargestRisk(SelectSeq(clean_risks, LAMBDA r : r \in CanonicalCodes),
                NumericRisks(clean_risks))

calculate_overall_risk(residual_risks) ==
    IF residual_risks = <<>> THEN None ELSE ClassifiedRisk(CleanRisks(residual_risks))

(***************************************************************************)
(* The canonical record.  A parse result is a record of kind "record", or  *)
(* NoRecord (Python's None), or Raised(exc) when the call raises.          *)
(***************************************************************************)
NoRecord == [kind |-> "none"]
Raised(exc) == [kind |-> "raise", exc |-> exc]
IsRecord(r) == r.kind = "record"

PreparedByKeys ==
    <<"name_last_first_middle_initial", "rank_grade", "duty_title_position", "unit",
      "work_email", "telephone", "uic_cin", "training_support_or_lesson_plan_or_opord",
      "signature_of_preparer">>

\* get_subtask_template()
get_subtask_template ==
    [name |-> None, hazard |-> None, initial_risk_level |-> None, control |-> <<>>,
     how |-> <<>>, who |-> <<>>, residual_risk_level |-> None]

\* get_dd2977_template()
get_dd2977_template ==
    [kind |-> "record",
     mission_task_and_description |-> None,
     date |-> None,
     prepared_by |-> [i \in 1..9 |-> None],
     subtasks |-> <<>>,
     overall_residual_risk_level |-> None,
     overall_supervision_plan |-> None,
     approve |-> 0,
     disapprove |-> 0]

(***************************************************************************)
(* Canonical schema mapper (structured path): parse_dd2977_xfa             *)
(***************************************************************************)
\* rows_payload: the values of the keys of Part4thru9 that start with "row"
RECURSIVE RowsPayload(_)
RowsPayload(items) ==
    IF items = <<>> THEN <<>>
    ELSE LET key == Head(items).k
             value == Head(items).v
         IN  (IF ~StartsWith(Lower(key), "row") THEN <<>>
              ELSE IF IsList(value) THEN value.items
              ELSE <<value>>) \o RowsPayload(Tail(items))

ResidualKeys ==
    <<"RRL", "ResidualRiskLevel", "ResidualRiskLvl", "ResidualRiskLevel1", "ResidualRiskLevel_1">>

\* the first candidate that is not None and not ""
RECURSIVE FirstResidual(_, _)
FirstResidual(entry, keys) ==
    IF keys = <<>> THEN PNone
    ELSE LET candidate == Get(entry, Head(keys)) IN
         IF candidate.t = "none" \/ (candidate.t = "str" /\ candidate.s = "")
         THEN FirstResidual(entry, Tail(keys))
         ELSE candidate

\* The row of one mapping-valued entry, before name inheritance.
CollapsedList(t) == IF t # None /\ t # "" THEN <<CollapseWs(t)>> ELSE <<>>

CleanHazard(hazard_text) ==
    IF hazard_text # None /\ hazard_text # "" THEN Strip(CollapseWs(hazard_text))
    ELSE hazard_text

\* table2 = table2[0] if table2 else {}   (for a list)
FirstOfList(t2) ==
    IF IsList(t2) THEN (IF t2.items # <<>> THEN t2.items[1] ELSE PDict(<<>>)) ELSE t2

AsMapping(t2) == IF IsDict(t2) THEN t2 ELSE PDict(<<>>)

XfaRowOf(entry, table2) ==
    [name |-> _coerce_to_string(
         Or(Get(entry, "Subtask-Substep"),
            Or(Get(entry, "Subtask_Substep"), Get(entry, "Subtask")))),
     hazard |-> CleanHazard(_coerce_to_string(Get(entry, "Hazard"))),
     initial_risk_level |-> _normalize_risk_level(Get(entry, "InitialRiskLevel")),
     control |-> _split_multiline(_coerce_to_string(Get(entry, "Control"))),
     how |-> CollapsedList(_coerce_to_string(Get(table2, "Row1"))),
     who |-> CollapsedList(_coerce_to_string(Get(table2, "Row2"))),
     residual_risk_level |-> _normalize_risk_level(FirstResidual(entry, ResidualKeys))]

XfaRow(entry) == XfaRowOf(entry, AsMapping(FirstOfList(Or(Get(entry, "Table2"), PDict(<<>>)))))

\* A mapper without inheritance: every row keeps the name written in it.
KeepOwnName(subtask_name, last_subtask_name) == subtask_name

\* The name a row carries after inheritance, given last_subtask_name.
InheritName(subtask_name, last_subtask_name) ==
    IF subtask_name # None /\ subtask_name # "" THEN subtask_name
    ELSE IF last_subtask_name # None /\ last_subtask_name # "" THEN last_subtask_name
    ELSE subtask_name

\* The loop over rows_payload: non-mapping entries are skipped.
RECURSIVE XfaSubtasks(_, _)
\* the row appended with its inherited name, and the rest of the loop
XfaSubtasksWith(row, rows_payload, last_subtask_name) ==
    <<[row EXCEPT !.name = InheritName(row.name, last_subtask_name)]>>
        \o XfaSubtasks(Tail(rows_payload),
                       IF row.name # None /\ row.name # "" THEN row.name
                       ELSE last_subtask_name)

XfaSubtasks(rows_payload, last_subtask_name) ==
    IF rows_payload = <<>> THEN <<>>
    ELSE IF ~IsDict(Head(rows_payload)) THEN XfaSubtasks(Tail(rows_payload), last_subtask_name)
    ELSE XfaSubtasksWith(XfaRow(Head(rows_payload)), rows_payload, last_subtask_name)

\* The leaves read from the least severe to the most severe.
LowFirstLeaves == <<<<"Low", "L">>, <<"Med", "M">>, <<"High", "H">>, <<"EHigh", "EH">>>>

OverallLeaves == <<<<"EHigh", "EH">>, <<"High", "H">>, <<"Med", "M">>, <<"Low", "L">>>>

\* the level of the first marked leaf of the block, else None
RECURSIVE FirstMarked(_, _)
FirstMarked(ten_block, leaves) ==
    IF leaves = <<>> THEN None
    ELSE IF _is_marked(Get(ten_block, Head(leaves)[1])) THEN Head(leaves)[2]
    ELSE FirstMarked(ten_block, Tail(leaves))

ResidualsOf(subtasks) == [i \in 1..Len(subtasks) |-> subtasks[i].residual_risk_level]

\* payload: what extract_xfa_dataset_from_pdf returned (PNone when absent)
ApprovalMark(approval_block, leaf) ==
    IF IsDict(approval_block) /\ _is_marked(Get(approval_block, leaf)) THEN 1 ELSE 0

ExplicitLevel(ten_block) ==
    IF IsDict(ten_block) THEN FirstMarked(ten_block, OverallLeaves) ELSE None

RowsOfSection(part_section) ==
    IF IsDict(part_section) THEN RowsPayload(part_section.items) ELSE <<>>

\* the explicit selection, else the level calculated from the rows
OverallResidual(explicit, subtasks) ==
    IF explicit # None THEN explicit ELSE calculate_overall_risk(ResidualsOf(subtasks))

XfaRecord(page1, subtasks, overall, approval_block) ==
    IF IsRaise(overall) THEN Raised(overall)
    ELSE [get_dd2977_template EXCEPT
            !.mission_task_and_description = _coerce_to_string(Get(page1, "One")),
            !.date = _coerce_to_string(Get(page1, "Two")),
            !.prepared_by = [i \in 1..9 |->
                _coerce_to_string(Get(page1, Ch("ABCDEFGHI", i)))],
            !.subtasks = subtasks,
            !.overall_residual_risk_level = overall,
            !.overall_supervision_plan = _coerce_to_string(Get(page1, "Eleven")),
            !.approve = ApprovalMark(approval_block, "Approve"),
            !.disapprove = ApprovalMark(approval_block, "Disapprove")]

XfaPageRows(page1, subtasks) ==
    XfaRecord(page1, subtasks, OverallResidual(ExplicitLevel(Get(page1, "Ten")), subtasks),
              Or(Get(page1, "Twelve"), PDict(<<>>)))

XfaPage(page1) ==
    IF ~IsDict(page1) THEN NoRecord
    ELSE XfaPageRows(page1,
             XfaSubtasks(RowsOfSection(Or(Get(page1, "Part4thru9"), PDict(<<>>))), None))

XfaForm(form) ==
    IF ~IsDict(form) THEN NoRecord ELSE XfaPage(Or(Get(form, "Page1"), PDict(<<>>)))

parse_dd2977_xfa(payload) ==
    IF ~Truthy(payload) \/ ~IsDict(payload) THEN NoRecord ELSE XfaForm(Get(payload, "form1"))

(***************************************************************************)
(* Heuristic text parser: the subtask table                                *)
(***************************************************************************)
\* The least position i >= start (1-based) at which pat occurs in s, else 0.
FindFrom(s, pat, start) ==
    LET hits == {i \in start..(Len(s) - Len(pat) + 1) : Sub(s, i, i + Len(pat) - 1) = pat}
    IN  IF hits = {} THEN 0 ELSE CHOOSE i \in hits : \A j \in hits : i <= j

\* re.search(r'9\.\s*RESIDUAL.*?RISK LEVEL.*?\n(.*?)(?=\n10\.\s|\Z)', text, DOTALL | I):
\* group(1), or None when there is no match.
\* the group ends before the first "\n10." that white space follows, else at the end
DataSectionStop(text, ends) == IF ends = {} THEN Len(text) + 1 ELSE MinOf(ends)

DataSectionGroup(text, n) ==
    IF n = 0 THEN None
    ELSE Sub(text, n + 1,
             DataSectionStop(text, {e \in (n + 1)..Len(text) :
                                       /\ Sub(text, e, e + 3) = "\n10."
                                       /\ e + 4 <= Len(text)
                                       /\ IsSpace(Ch(text, e + 4))}) - 1)

DataSectionAfterLevel(text, k) ==
    IF k = 0 THEN None ELSE DataSectionGroup(text, FindFrom(text, "\n", k + 10))

DataSectionMatch(text, up, starts) ==
    IF starts = {} THEN None
    ELSE DataSectionAfterLevel(text,
             FindFrom(up, "RISK LEVEL", SkipWs(up, MinOf(starts) + 2) + 8))

DataSectionSearch(text, up) ==
    DataSectionMatch(text, up, {i \in 1..Len(text) :
                                   /\ Sub(up, i, i + 1) = "9."
                                   /\ StartsWith(From(up, SkipWs(up, i + 2) - 1), "RESIDUAL")})

DataSection(text) == DataSectionSearch(text, Upper(text))

\* The row separator  \+\s*\n-\s*\n  matched at position i of s: the position
\* after the match, or 0 when it does not match there.  Each \s* is greedy, so
\* the second one ends at the last newline of the whitespace that follows "-".
SepLast(nls) == IF nls = {} THEN 0 ELSE MaxOf(nls) + 1

SepDash(s, i, d) ==
    IF /\ i <= Len(s) /\ Ch(s, i) = "+"
       /\ d <= Len(s) /\ Ch(s, d) = "-"
       /\ Ch(s, d - 1) = "\n"
    THEN SepLast({j \in (d + 1)..(SkipWs(s, d + 1) - 1) : Ch(s, j) = "\n"})
    ELSE 0

SepEnd(s, i) == SepDash(s, i, SkipWs(s, i + 1))

\* (?:^|\n) followed by the separator, tried at position p: the position
\* after the match, or 0.
RowStartEnd(s, p) ==
    IF p = 1 /\ SepEnd(s, 1) # 0 THEN SepEnd(s, 1)
    ELSE IF p <= Len(s) /\ Ch(s, p) = "\n" THEN SepEnd(s, p + 1)
    ELSE 0

\* re.findall(row_pattern, data_section, DOTALL), scanning from position p
RECURSIVE RowMatchesFrom(_, _)
RowEnd(s, ends) == IF ends = {} THEN Len(s) + 1 ELSE MinOf(ends)

RowContent(s, c, e0) == <<Sub(s, c, e0 - 1)>> \o RowMatchesFrom(s, e0)

RowFrom(s, c) ==
    RowContent(s, c, RowEnd(s, {e \in c..Len(s) : Ch(s, e) = "\n" /\ SepEnd(s, e + 1) # 0}))

RowFirst(s, starts) == IF starts = {} THEN <<>> ELSE RowFrom(s, RowStartEnd(s, MinOf(starts)))

RowMatchesFrom(s, p) == RowFirst(s, {q \in p..Len(s) : RowStartEnd(s, q) # 0})

RowMatches(data_section) == RowMatchesFrom(data_section, 1)

\* The hazard vocabulary, in the order of the source literal.  The code holds
\* it in a set, whose iteration order is not fixed from run to run.
COMMON_HAZARD_PREFIXES ==
    <<"ACCIDENT", "AIRCRAFT", "AIR", "AMMUNITION", "APPROACH", "BAD", "BIOLOGICAL",
      "BURN", "CHEMICAL", "COLD", "CONTAMINATION", "CARGO", "DAMAGE", "DEHYDRATION",
      "DETONATION", "DISCHARGE", "DROWNING", "ELECTRICAL", "EMERGENCY", "EXPLOSION",
      "FAIL", "FAILURE", "FALL", "FALLS", "FATIGUE", "FIRE", "FRATRICIDE", "HAZARD",
      "HEAT", "HELICOPTER", "HOT", "ILLNESS", "IMPROPER", "INJURY", "INJURIES",
      "INSUFFICIENT", "INTERNAL", "LIGHTNING", "LOSS", "LOST", "LOW", "MECHANICAL",
      "MISFIRE", "MISSING", "MIS", "NEGLECT", "NEGATIVE", "NEGLIGENT", "POOR",
      "RADIATION", "RESIDUAL", "RISK", "ROAD", "ROLL", "ROLLOVER", "SLING", "SPILL",
      "SURFACE", "TRIP", "TRIPS", "UXO", "VEHICLE", "VEHICLES", "WEATHER", "WILDLIFE",
      "WRONG", "LACK", "INSUFFICIENT", "INAPPROPRIATE", "SLICK", "ICE", "SNOW", "RAIN",
      "WIND", "MECHANICAL", "STRUCTURAL", "FUEL", "SMOKE", "FOD", "FROST", "EXPOSURE",
      "HYPOTHERMIA", "HYPERTHERMIA", "CASUALTY", "CASUALTIES", "OVERHEAT",
      "OVEREXERTION", "CONGESTION", "COLLISION", "IMPACT", "CONTACT", "HAZMAT",
      "INCLEMENT", "DAMAGED", "ENVIRONMENTAL", "SURVIVABILITY", "VEGETATION", "HAZE",
      "POISON", "TOXIC", "FUMES", "OBSTACLE", "RUNWAY", "LANDING", "PZ", "LZ",
      "MARKING", "WEAK", "UNSECURED", "UNSTABLE", "CONTAGION">>

HAZARD_STOPWORDS == {"THE", "AND", "OF", "IN", "ON", "AT", "TO", "A", "AN", "WITH", "BY", "FOR"}

InSeq(x, list) == \E i \in 1..Len(list) : list[i] = x

\* A risk token of any length.
LongRiskCode(line) ==
    /\ Len(line) >= 1
    /\ \/ \A i \in 1..Len(line) : Ch(line, i) \in {"M", "H", "L", "E"}
       \/ Len(line) = 1 /\ line \in {"0", "1", "2", "3", "4", "5"}

\* re.match(r'^([MHLE]+|[0-5])$', line) and len(line) <= 3
IsRiskCode(line) ==
    /\ Len(line) >= 1
    /\ Len(line) <= 3
    /\ \/ \A i \in 1..Len(line) : Ch(line, i) \in {"M", "H", "L", "E"}
       \/ Len(line) = 1 /\ line \in {"0", "1", "2", "3", "4", "5"}

\* [line.strip() for line in row_content.split('\n') if line.strip()]
RowLines(row_content) ==
    LET parts == SplitOn(row_content, "\n")
    IN  SelectSeq([i \in 1..Len(parts) |-> Strip(parts[i])], LAMBDA l : l # "")

\* The state of the per-line loop of one row.
LineState0 ==
    [current_section |-> "subtask", initial_risk |-> None, residual_risk |-> None,
     found_first_risk |-> FALSE, subtask_lines |-> <<>>, controls_lines |-> <<>>,
     how_lines |-> <<>>, who_lines |-> <<>>, broke |-> FALSE]

\* A loop body that goes back to the subtask lines after the who lines.
SubtaskAfterWho(st, line) ==
    IF IsRiskCode(line)
    THEN IF ~st.found_first_risk
         THEN [st EXCEPT !.initial_risk = line, !.found_first_risk = TRUE,
                         !.current_section = "controls"]
         ELSE [st EXCEPT !.residual_risk = line, !.broke = TRUE]
    ELSE IF StartsWith(line, "How:")
    THEN [st EXCEPT !.current_section = "how",
                    !.how_lines = IF Strip(From(line, 4)) # ""
                                  THEN Append(@, Strip(From(line, 4))) ELSE @]
    ELSE IF StartsWith(line, "Who:")
    THEN [st EXCEPT !.current_section = "who",
                    !.who_lines = IF Strip(From(line, 4)) # ""
                                  THEN Append(@, Strip(From(line, 4))) ELSE @]
    ELSE IF StartsWith(line, "-") /\ st.current_section \in {"controls", "subtask"}
    THEN [st EXCEPT !.current_section = "controls", !.controls_lines = Append(@, line)]
    ELSE IF st.current_section \in {"subtask", "who"}
    THEN [st EXCEPT !.current_section = "subtask", !.subtask_lines = Append(@, line)]
    ELSE IF st.current_section = "controls" THEN [st EXCEPT !.controls_lines = Append(@, line)]
    ELSE [st EXCEPT !.how_lines = Append(@, line)]

\* A loop body that takes every dash-prefixed line as a control item.
DashAnywhere(st, line) ==
    IF IsRiskCode(line)
    THEN IF ~st.found_first_risk
         THEN [st EXCEPT !.initial_risk = line, !.found_first_risk = TRUE,
                         !.current_section = "controls"]
         ELSE [st EXCEPT !.residual_risk = line, !.broke = TRUE]
    ELSE IF StartsWith(line, "-")
    THEN [st EXCEPT !.current_section = "controls", !.controls_lines = Append(@, line)]
    ELSE IF StartsWith(line, "How:")
    THEN [st EXCEPT !.current_section = "how", !.how_lines = Append(@, Strip(From(line, 4)))]
    ELSE IF StartsWith(line, "Who:")
    THEN [st EXCEPT !.current_section = "who", !.who_lines = Append(@, Strip(From(line, 4)))]
    ELSE IF st.current_section = "subtask" THEN [st EXCEPT !.subtask_lines = Append(@, line)]
    ELSE IF st.current_section = "controls" THEN [st EXCEPT !.controls_lines = Append(@, line)]
    ELSE IF st.current_section = "how" THEN [st EXCEPT !.how_lines = Append(@, line)]
    ELSE [st EXCEPT !.who_lines = Append(@, line)]

\* One iteration of the loop body on a (stripped, non-empty) line.
LineStep(st, line) ==
    IF IsRiskCode(line)
    THEN IF ~st.found_first_risk
         THEN [st EXCEPT !.initial_risk = line, !.found_first_risk = TRUE,
                         !.current_section = "controls"]
         ELSE [st EXCEPT !.residual_risk = line, !.broke = TRUE]
    ELSE IF StartsWith(line, "How:")
    THEN [st EXCEPT !.current_section = "how",
                    !.how_lines = IF Strip(From(line, 4)) # ""
                                  THEN Append(@, Strip(From(line, 4))) ELSE @]
    ELSE IF StartsWith(line, "Who:")
    THEN [st EXCEPT !.current_section = "who",
                    !.who_lines = IF Strip(From(line, 4)) # ""
                                  THEN Append(@, Strip(From(line, 4))) ELSE @]
    ELSE IF StartsWith(line, "-") /\ st.current_section \in {"controls", "subtask"}
    THEN [st EXCEPT !.current_section = "controls", !.controls_lines = Append(@, line)]
    ELSE IF st.current_section = "subtask" THEN [st EXCEPT !.subtask_lines = Append(@, line)]
    ELSE IF st.current_section = "controls" THEN [st EXCEPT !.controls_lines = Append(@, line)]
    ELSE IF st.current_section = "how" THEN [st EXCEPT !.how_lines = Append(@, line)]
    ELSE [st EXCEPT !.who_lines = Append(@, line)]

\* while i < len(lines): ... ; the loop ends at the break or after the last line
RECURSIVE LineLoop(_, _, _)
LineLoop(lines, i, st) ==
    IF i > Len(lines) \/ st.broke THEN st
    ELSE LineLoop(lines, i + 1, LineStep(st, Strip(lines[i])))

\* The split of the subtask lines into subtask and hazard lines (first stage).
\* order: the iteration order of the hazard vocabulary set in this run.
MatchedKeyword(line, order) ==
    LET toks == Words(Upper(line))
        hits == {k \in 1..Len(order) : InSeq(order[k], toks)}
    IN  IF hits = {} THEN None ELSE order[MinOf(hits)]

\* A skip set that holds words of the hazard vocabulary itself.
SkipHazardWords == {"HEAT", "FIRE"}

skip_first_keywords == {"EVACUATION", "MEDICAL"}

hazard_cues ==
    {"HAZARD", "INJURY", "CASUALTY", "FAILURE", "FIRE", "ROLL", "ACCIDENT",
     "DAMAGE", "LOSS", "PZ", "DZ", "LZ", "MARK", "ACCOUNT", "WEATHER",
     "HELICOPTER", "AIRCRAFT", "SLING", "CARGO"}

\* the keyword scan goes on to the next line
ScanContinues(idx, matched) == matched = None \/ (idx = 1 /\ matched \in skip_first_keywords)

SplitAtKeyword(subtask_lines, stops) ==
    IF stops # {}
    THEN [sub |-> SubSeq(subtask_lines, 1, MinOf(stops) - 1),
          haz |-> SubSeq(subtask_lines, MinOf(stops), Len(subtask_lines))]
    ELSE [sub |-> subtask_lines, haz |-> <<>>]

SplitByVocabulary(subtask_lines, order, first_line) ==
    IF Len(subtask_lines) < 2 THEN [sub |-> subtask_lines, haz |-> <<>>]
    ELSE IF \E cat \in {"RANGE EXECUTION", "MOVEMENT", "ENVIRONMENTAL", "TRAINING"} :
                Contains(first_line, cat)
    THEN [sub |-> SubSeq(subtask_lines, 1, 1),
          haz |-> SubSeq(subtask_lines, 2, Len(subtask_lines))]
    ELSE SplitAtKeyword(subtask_lines,
             {idx \in 1..Len(subtask_lines) :
                 ~ScanContinues(idx, MatchedKeyword(subtask_lines[idx], order))})

\* the number of leading lines the name keeps
KeptLines(m, second_line_words, hazard_candidate) ==
    IF /\ second_line_words >= 1 /\ second_line_words <= 3 /\ m > 2
       /\ ~\E cue \in hazard_cues : Contains(hazard_candidate, cue)
    THEN 2 ELSE 1

SplitCut(stage1, m, keep) ==
    IF stage1.sub # <<>> /\ stage1.haz = <<>> /\ m > 1 /\ m > keep
    THEN [sub |-> SubSeq(stage1.sub, 1, keep), haz |-> SubSeq(stage1.sub, keep + 1, m)]
    ELSE stage1

SplitFallback(stage1) ==
    SplitCut(stage1, Len(stage1.sub),
             KeptLines(Len(stage1.sub), Len(Words(stage1.sub[2])),
                       Upper(Join(SubSeq(stage1.sub, 2, Len(stage1.sub)), " "))))

SplitSubtaskLines(subtask_lines, order) ==
    IF subtask_lines = <<>> THEN [sub |-> <<>>, haz |-> <<>>]
    ELSE SplitFallback(SplitByVocabulary(subtask_lines, order, Upper(subtask_lines[1])))

\* bool(s) of a value that is a string or None
Nonempty(s) == s # None /\ s # ""

MainCategories ==
    <<"RANGE EXECUTION", "RANGE OPERATIONS", "MOVEMENT TO", "MOVEMENT", "VEHICLE MOVEMENT",
      "AMMUNITION", "ENVIRONMENTAL", "MEDICAL", "TRAINING", "FIRE CONTROL",
      "WEAPONS HANDLING", "COMMUNICATIONS", "NIGHT OPERATIONS", "WEATHER">>

\* s.lstrip(chars)
LStripChars(s, chars) ==
    LET stops == {j \in 1..Len(s) : Ch(s, j) \notin chars}
    IN  IF stops = {} THEN "" ELSE Sub(s, MinOf(stops), Len(s))

\* re.split(r"\s{2,}|\s[-/:]\s|:\s|/", s, maxsplit=1): the one or two parts
\* (the dashes of the model are the ASCII hyphen)
SplitOnSeparator(s) ==
    LET width(i) ==
            IF IsSpace(Ch(s, i)) /\ IsSpace(Ch(s, i + 1)) THEN SkipWs(s, i) - i
            ELSE IF IsSpace(Ch(s, i)) /\ Ch(s, i + 1) \in {"-", "/", ":"} /\ IsSpace(Ch(s, i + 2))
            THEN 3
            ELSE IF Ch(s, i) = ":" /\ IsSpace(Ch(s, i + 1)) THEN 2
            ELSE IF Ch(s, i) = "/" THEN 1
            ELSE 0
        hits == {i \in 1..Len(s) : width(i) > 0}
        i0 == MinOf(hits)
    IN  IF hits = {} THEN <<s>>
        ELSE <<Sub(s, 1, i0 - 1), From(s, i0 + width(i0) - 1)>>

\* name and hazard of the row from the subtask and hazard lines (combined-text split)
OrNone(s) == IF s # "" THEN s ELSE None

NameOr(name_fragment, subtask_text) ==
    IF name_fragment # "" THEN name_fragment ELSE subtask_text

SplitByCategory(subtask_text, category) ==
    [name |-> NameOr(Strip(Sub(subtask_text, 1, Len(category))), subtask_text),
     hazard |-> OrNone(Strip(LStripChars(Strip(From(subtask_text, Len(category))),
                                         {"-", ":", ";", "/", ","})))]

SplitBySeparator(subtask_text, parts) ==
    IF Len(parts) = 2
    THEN [name |-> Strip(parts[1]), hazard |-> OrNone(Strip(parts[2]))]
    ELSE [name |-> subtask_text, hazard |-> None]

SplitCombined(subtask_text, cats) ==
    IF cats # {} THEN SplitByCategory(subtask_text, MainCategories[MinOf(cats)])
    ELSE SplitBySeparator(subtask_text, SplitOnSeparator(subtask_text))

CombinedText(subtask_text, upper_subtask) ==
    SplitCombined(subtask_text,
        {k \in 1..Len(MainCategories) : StartsWith(upper_subtask, MainCategories[k])})

NameAndHazardOf(subtask_text, hazard_text) ==
    IF Nonempty(subtask_text) /\ ~Nonempty(hazard_text)
    THEN CombinedText(subtask_text, Upper(subtask_text))
    ELSE [name |-> subtask_text, hazard |-> hazard_text]

NameAndHazard(subtask_lines, hazard_lines) ==
    NameAndHazardOf(IF subtask_lines # <<>> THEN Join(subtask_lines, " ") ELSE None,
                    IF hazard_lines # <<>> THEN Join(hazard_lines, " ") ELSE None)

\* Repair pass: a name that begins with a hazard word is folded into the hazard.
TokenSeparators == WsChars \cup {",", "/"}

LeadingToken(tokens) == IF tokens # <<>> THEN tokens[1] ELSE ""

EndsOpen(subtask_words) ==
    subtask_words # <<>> /\
    Upper(subtask_words[Len(subtask_words)]) \in {"OF", "TO", "AND", "THE"}

CombinedHazard(candidate_subtask, hazard_body) ==
    Strip(CollapseWs(IF \/ hazard_body = ""
                        \/ Len(Tokens(hazard_body, TokenSeparators)) <= 2
                        \/ EndsOpen(Words(candidate_subtask))
                     THEN Strip(candidate_subtask \o " " \o hazard_body)
                     ELSE hazard_body))

FoldedName(nh, prev_subtask_name, leading_token, combined_hazard) ==
    IF /\ InSeq(leading_token, COMMON_HAZARD_PREFIXES)
       /\ leading_token \notin HAZARD_STOPWORDS
       /\ combined_hazard # ""
    THEN [name |-> prev_subtask_name, hazard |-> combined_hazard]
    ELSE nh

RepairName(nh, prev_subtask_name) ==
    IF Nonempty(nh.name) /\ Nonempty(nh.hazard) /\ Nonempty(prev_subtask_name)
    THEN FoldedName(nh, prev_subtask_name,
                    LeadingToken(Tokens(Upper(nh.name), TokenSeparators)),
                    CombinedHazard(Strip(nh.name), Strip(nh.hazard)))
    ELSE nh

BulletChars == {"-", "*"}
Conjunctions == {"and ", "or ", "but ", "so ", "yet ", "for ", "nor "}

\* The grouping loop over the control lines: cleaned_controls followed by the
\* open paragraph (a list of lines).
RECURSIVE GroupControls(_, _, _)
\* A grouping that starts an item at sentence breaks alone.
SentenceBreakOnly(current_paragraph, cleaned_line, last_line) ==
    /\ current_paragraph # <<>>
    /\ \E e \in {".", "!", "?"} : EndsWith(last_line, e)
    /\ IsUpperCh(Ch(cleaned_line, 1))
    /\ ~\E c \in Conjunctions : StartsWith(Lower(cleaned_line), c)

starts_new_sentence(current_paragraph, cleaned_line, last_line) ==
    /\ current_paragraph # <<>>
    /\ \/ Ch(cleaned_line, 1) \in BulletChars
       \/ /\ \E e \in {".", "!", "?"} : EndsWith(last_line, e)
          /\ IsUpperCh(Ch(cleaned_line, 1))
          /\ ~\E c \in Conjunctions : StartsWith(Lower(cleaned_line), c)

\* A closing that keeps the closed paragraph alone.
LastParagraphOnly(cleaned_controls, paragraph_text) ==
    IF paragraph_text # "" THEN <<paragraph_text>> ELSE cleaned_controls

\* cleaned_controls after the open paragraph is closed
ClosedParagraph(cleaned_controls, paragraph_text) ==
    IF paragraph_text # "" THEN Append(cleaned_controls, paragraph_text) ELSE cleaned_controls

GroupControlsLine(lines, cleaned_controls, current_paragraph, cleaned_line) ==
    IF cleaned_line = "" THEN GroupControls(Tail(lines), cleaned_controls, current_paragraph)
    ELSE IF starts_new_sentence(current_paragraph, cleaned_line,
                                Lower(current_paragraph[Len(current_paragraph)]))
    THEN GroupControls(Tail(lines),
                       ClosedParagraph(cleaned_controls, Strip(Join(current_paragraph, " "))),
                       <<cleaned_line>>)
    ELSE GroupControls(Tail(lines), cleaned_controls, Append(current_paragraph, cleaned_line))

GroupControls(lines, cleaned_controls, current_paragraph) ==
    IF lines = <<>>
    THEN IF current_paragraph # <<>>
         THEN ClosedParagraph(cleaned_controls, Strip(Join(current_paragraph, " ")))
         ELSE cleaned_controls
    ELSE GroupControlsLine(lines, cleaned_controls, current_paragraph,
                           CollapseWs(Strip(Head(lines))))

\* " ".join(lines) with whitespace collapsed, as a list of at most one value
JoinedValue(lines) ==
    LET t == Strip(CollapseWs(Join(lines, " ")))
    IN  IF lines # <<>> /\ t # "" THEN <<t>> ELSE <<>>

\* One row: [skip, row, last_subtask_name] for a row_content and the
\* last_subtask_name carried into it.
ParsedRow(st, nh, last_subtask_name, carries) ==
    [skip |-> FALSE,
     row |-> [name |-> IF carries THEN nh.name
                       ELSE IF Nonempty(last_subtask_name) THEN last_subtask_name
                       ELSE nh.name,
              hazard |-> nh.hazard,
              initial_risk_level |-> st.initial_risk,
              control |-> GroupControls(st.controls_lines, <<>>, <<>>),
              how |-> JoinedValue(st.how_lines),
              who |-> JoinedValue(st.who_lines),
              residual_risk_level |-> st.residual_risk],
     last |-> IF carries THEN Strip(nh.name) ELSE last_subtask_name]

CarriedRow(st, nh, last_subtask_name) ==
    ParsedRow(st, nh, last_subtask_name, Nonempty(nh.name) /\ Strip(nh.name) # "")

\* A row population without the hazard text captured under the subtask column.
KeepSubtask(nh, last_subtask_name) == nh

\* hazard text captured under the subtask column
UnderSubtask(nh, last_subtask_name) ==
    IF /\ Nonempty(last_subtask_name) /\ Nonempty(nh.name) /\ ~Nonempty(nh.hazard)
       /\ Strip(nh.name) # ""
    THEN [name |-> last_subtask_name, hazard |-> Strip(nh.name)]
    ELSE nh

NamedRow(st, split, last_subtask_name) ==
    CarriedRow(st,
               UnderSubtask(RepairName(NameAndHazard(split.sub, split.haz), last_subtask_name),
                            last_subtask_name),
               last_subtask_name)

RowOfState(st, last_subtask_name, order) ==
    NamedRow(st, SplitSubtaskLines(st.subtask_lines, order), last_subtask_name)

RowOfLines(row_content, lines, last_subtask_name, order) ==
    IF Strip(row_content) = "" \/ lines = <<>>
    THEN [skip |-> TRUE, row |-> get_subtask_template, last |-> last_subtask_name]
    ELSE RowOfState(LineLoop(lines, 1, LineState0), last_subtask_name, order)

ParseRow(row_content, last_subtask_name, order) ==
    RowOfLines(row_content, RowLines(row_content), last_subtask_name, order)

RECURSIVE ParseRows(_, _, _)
ParseRowsAfter(r, row_matches, order) ==
    (IF r.skip THEN <<>> ELSE <<r.row>>) \o ParseRows(Tail(row_matches), r.last, order)

ParseRows(row_matches, last_subtask_name, order) ==
    IF row_matches = <<>> THEN <<>>
    ELSE ParseRowsAfter(ParseRow(Head(row_matches), last_subtask_name, order),
                        row_matches, order)

\* order: the iteration order of the hazard vocabulary set in this run
RowsOfData(data_section, order) ==
    IF data_section = None THEN <<>>
    ELSE ParseRows(RowMatches(data_section), None, order)

extract_subtask_rows(text, order) == RowsOfData(DataSection(text), order)

(***************************************************************************)
(* Heuristic text parser: single-value sections.  The regular expressions  *)
(* of the source are matched by position.  A pattern head is a sequence of *)
(* [lit, ws]: a literal (upper case, the searches are case-insensitive)    *)
(* followed by no whitespace (""), \s* ("*") or \s+ ("+"); "?*" is an      *)
(* optional literal followed by \s*.                                       *)
(***************************************************************************)
P(lit, ws) == [lit |-> lit, ws |-> ws]

\* The position after the match of elems at position i of up, or 0.
RECURSIVE MatchElems(_, _, _)
MatchElems(up, i, elems) ==
    IF elems = <<>> THEN i
    ELSE LET e == Head(elems)
             j == i + Len(e.lit)
             found == Sub(up, i, j - 1) = e.lit /\ j - 1 <= Len(up)
         IN  IF e.ws = "?*"
             THEN MatchElems(up, SkipWs(up, IF found THEN j ELSE i), Tail(elems))
             ELSE IF ~found THEN 0
             ELSE IF e.ws = "" THEN MatchElems(up, j, Tail(elems))
             ELSE IF e.ws = "+" /\ ~IsSpace(Ch(up, j)) THEN 0
             ELSE MatchElems(up, SkipWs(up, j), Tail(elems))

\* The leftmost position at which elems matches, from position p on, or 0.
SearchElems(up, elems, p) ==
    LET hits == {i \in p..Len(up) : MatchElems(up, i, elems) # 0}
    IN  IF hits = {} THEN 0 ELSE MinOf(hits)

\* The least e >= from at which one of the lookaheads matches, else Len + 1 (\Z).
LazyEnd(up, from, lookaheads) ==
    LET hits == {e \in from..Len(up) : \E la \in lookaheads : MatchElems(up, e, la) # 0}
    IN  IF hits = {} THEN Len(up) + 1 ELSE MinOf(hits)

\* head .*? \n (.+?) (?= lookaheads | \Z): group(1), or None without a match.
LineGroup(text, up, n, lookaheads) ==
    IF n = 0 \/ n >= Len(text) THEN None
    ELSE Sub(text, n + 1, LazyEnd(up, n + 2, lookaheads) - 1)

LineMatch(text, up, i0, head, lookaheads) ==
    IF i0 = 0 THEN None
    ELSE LineGroup(text, up, FindFrom(text, "\n", MatchElems(up, i0, head)), lookaheads)

LineSearch(text, up, head, lookaheads) ==
    LineMatch(text, up, SearchElems(up, head, 1), head, lookaheads)

LineSection(text, head, lookaheads) == LineSearch(text, Upper(text), head, lookaheads)

\* head .*? : \s* (.+?) (?= lookaheads | \Z): group(1), or None without a match.
ColonGroup(text, up, g, lookaheads) == Sub(text, g, LazyEnd(up, g + 1, lookaheads) - 1)

ColonClamp(text, g) == IF g > Len(text) THEN Len(text) ELSE g

AfterColon(text, up, c, lookaheads) ==
    IF c = 0 \/ c >= Len(text) THEN None
    ELSE ColonGroup(text, up, ColonClamp(text, SkipWs(text, c + 1)), lookaheads)

ColonMatch(text, up, i0, head, lookaheads) ==
    IF i0 = 0 THEN None
    ELSE AfterColon(text, up, FindFrom(text, ":", MatchElems(up, i0, head)), lookaheads)

ColonSearch(text, up, head, lookaheads) ==
    ColonMatch(text, up, SearchElems(up, head, 1), head, lookaheads)

ColonSection(text, head, lookaheads) == ColonSearch(text, Upper(text), head, lookaheads)

\* value.strip() with whitespace collapsed, None when nothing is left
CleanValue(group) ==
    IF group = None THEN None
    ELSE IF Strip(group) = "" THEN None
    ELSE CollapseWs(Strip(group))

\* str.splitlines() without the empty lines, each line stripped
StrippedLines(block) ==
    LET parts == Tokens(block, {"\n", "\r"})
    IN  SelectSeq([i \in 1..Len(parts) |-> Strip(parts[i])], LAMBDA l : l # "")

IsWordCh(c) == IsLowerCh(c) \/ IsUpperCh(c) \/ c \in Digits \/ c = "_"

\* \b at position i of s (between s[i-1] and s[i])
WordBoundary(s, i) == IsWordCh(Ch(s, i - 1)) # IsWordCh(Ch(s, i))

\* re.search(r"\b(elems)\b", s, I)
HasWord(s, elems) ==
    LET up == Upper(s) IN
    \E i \in 1..Len(s) :
        /\ MatchElems(up, i, elems) # 0
        /\ WordBoundary(s, i)
        /\ WordBoundary(s, MatchElems(up, i, elems))

RiskOptions == {"EXTREMELY HIGH", "HIGH", "MEDIUM", "LOW"}

OptionPatterns ==
    << <<P("EXTREMELY", "+"), P("HIGH", "")>>, <<P("HIGH", "")>>, <<P("MEDIUM", "")>>,
       <<P("LOW", "")>> >>

\* re.search(r"(EXTREMELY\s+HIGH|HIGH|MEDIUM|LOW)", raw_line, I):
\* [start, stop) of the match, start = 0 without one.
\* the options that match at i
OptionsAt(up, i) == {k \in 1..4 : MatchElems(up, i, OptionPatterns[k]) # 0}

OptionFound(up, i0, k) == [start |-> i0, stop |-> MatchElems(up, i0, OptionPatterns[k])]

OptionFirst(up, hits) ==
    IF hits = {} THEN [start |-> 0, stop |-> 0]
    ELSE OptionFound(up, MinOf(hits), MinOf(OptionsAt(up, MinOf(hits))))

OptionSearch(up) == OptionFirst(up, {i \in 1..Len(up) : OptionsAt(up, i) # {}})

OptionMatch(raw_line) == OptionSearch(Upper(raw_line))

\* Whether the line names an option and carries a mark or a qualifier
OptionQualified(remainder) ==
    \/ \E i \in 1..Len(remainder) : Ch(remainder, i) \in {"X", "1"}
    \/ \E w \in {"SELECTED", "CHECKED", "YES"} : HasWord(remainder, <<P(w, "")>>)

OptionMarked(raw_line, m) ==
    /\ m.start # 0
    /\ OptionQualified(Strip(Sub(raw_line, 1, m.start - 1) \o From(raw_line, m.stop - 1)))

OptionSelected(raw_line) == OptionMarked(raw_line, OptionMatch(raw_line))

\* re.sub(r"^[*\-\[\]()]+", "", line).strip().upper()  (bullets of the model)
Unbulleted(line) == Upper(Strip(LStripChars(line, {"*", "-", "[", "]", "(", ")"})))

\* The explicit overall residual risk of section 10, else None.
OptionNamed(l, m) == Upper(Sub(l, m.start, m.stop - 1))

\* the first line with an option that carries a mark ends the loop
OptionByMark(l) == OptionNamed(l, OptionMatch(l))

SingleOption(marked_lines) ==
    IF Len(marked_lines) = 1 THEN Unbulleted(marked_lines[1]) ELSE None

OptionChoice(option_lines, marks) ==
    IF marks # {} THEN OptionByMark(option_lines[MinOf(marks)])
    ELSE SingleOption(SelectSeq(option_lines, LAMBDA l : Unbulleted(l) \in RiskOptions))

OptionOfLines(option_lines) ==
    IF option_lines = <<>> THEN None
    ELSE IF Len(option_lines) = 1
    THEN (IF Upper(option_lines[1]) \in RiskOptions THEN Upper(option_lines[1]) ELSE None)
    ELSE OptionChoice(option_lines,
                      {i \in 1..Len(option_lines) : OptionSelected(option_lines[i])})

OptionOfSection(group) ==
    IF group = None THEN None ELSE OptionOfLines(StrippedLines(Strip(group)))

ExplicitOverall(text) ==
    OptionOfSection(ColonSection(text,
        <<P("10.", "*"), P("OVERALL", "+"), P("RESIDUAL", "+"), P("RISK LEVEL", "")>>,
        {<<P("\n11.", "+")>>, <<P("\n12.", "+")>>}))

\* pick(r"11\.\s*OVERALL SUPERVISION PLAN.*?:\s*(.+?)(?=\n(?:APPROVE|...)|\Z)", text)
StrippedGroup(group) == IF group = None THEN None ELSE Strip(group)

SupervisionPlan(text) ==
    StrippedGroup(ColonSection(text,
        <<P("11.", "*"), P("OVERALL SUPERVISION PLAN", "")>>,
        {<<P("\nAPPROVE", "")>>, <<P("\nDISAPPROVE", "")>>, <<P("\n12.", "")>>,
         <<P("\n14.", "")>>, <<P("\n15.", "")>>}))

LevelPatterns ==
    << <<P("EXTREMELY", "+"), P("HIGH", "")>>, <<P("VERY", "+"), P("HIGH", "")>>,
       <<P("HIGH", "")>>, <<P("MEDIUM", "")>>, <<P("MODERATE", "")>>, <<P("LOW", "")>>,
       <<P("VERY", "+"), P("LOW", "")>>, <<P("NEGLIGIBLE", "")>> >>

ConnectorPatterns ==
    << <<P("ASSESSED", "+"), P("AS", "+")>>,
       <<P("ASSESSED", "+"), P("TO", "+"), P("BE", "+")>>,
       <<P("IS", "+")>> >>

\* risk_map of the narrative refinement; None for a level it does not hold
PlanRiskMap(plan_level) ==
    CASE plan_level = "EXTREMELY HIGH" -> "EXTREMELY HIGH"
      [] plan_level \in {"VERY HIGH", "HIGH"} -> "HIGH"
      [] plan_level \in {"MEDIUM", "MODERATE"} -> "MEDIUM"
      [] plan_level \in {"LOW", "VERY LOW", "NEGLIGIBLE"} -> "LOW"
      [] OTHER -> None

\* group(1).upper() of the narrative search, None without a match:
\* overall\s+residual\s+risk [^.]*? (assessed as | assessed to be | is) \s+ (level)
PlanHead == <<P("OVERALL", "+"), P("RESIDUAL", "+"), P("RISK", "")>>

NoLevel == [start |-> 0, stop |-> 0]

\* the level at p: [start, stop), start = 0 if none
LevelAmong(up, p, ks) ==
    IF ks = {} THEN NoLevel
    ELSE [start |-> p, stop |-> MatchElems(up, p, LevelPatterns[MinOf(ks)])]

LevelAfterConnector(up, p) ==
    LevelAmong(up, p, {k \in 1..8 : MatchElems(up, p, LevelPatterns[k]) # 0})

LevelConnected(up, q, cs) ==
    IF cs = {} THEN NoLevel
    ELSE LevelAfterConnector(up, MatchElems(up, q, ConnectorPatterns[MinOf(cs)]))

\* the level that follows a connector at q
LevelAt(up, q) ==
    LevelConnected(up, q, {c \in 1..3 : MatchElems(up, q, ConnectorPatterns[c]) # 0})

\* the connectors the lazy [^.]*? of the head reaches from h
LevelsWithin(up, h) ==
    {q \in h..Len(up) : LevelAt(up, q).start # 0 /\ ~Contains(Sub(up, h, q - 1), ".")}

LevelReach(up, i) == LevelsWithin(up, MatchElems(up, i, PlanHead))

LevelFound(up, m) == Sub(up, m.start, m.stop - 1)

LevelFirst(up, starts) ==
    IF starts = {} THEN None
    ELSE LevelFound(up, LevelAt(up, MinOf(LevelReach(up, MinOf(starts)))))

LevelSearch(up) ==
    LevelFirst(up, {i \in 1..Len(up) :
                       MatchElems(up, i, PlanHead) # 0 /\ LevelReach(up, i) # {}})

PlanLevel(narrative) == LevelSearch(Upper(narrative))

CheckboxChars == Digits \cup {"X", "x"}

\* parse_checkbox_value(text, r"\b<label>\s*([0-9Xx]+)")
CheckboxValueAt(text, label, i) == SkipWs(text, i + Len(label))

CheckboxMark(value) ==
    IF value \in {"1", "X", "x"} THEN 1
    ELSE IF /\ \A k \in 1..Len(value) : Ch(value, k) \in Digits
            /\ \E k \in 1..Len(value) : Ch(value, k) # "0"
    THEN 1
    ELSE 0

CheckboxValue(text, j) ==
    CheckboxMark(Sub(text, j,
        MinOf({k \in j..(Len(text) + 1) : Ch(text, k) \notin CheckboxChars}) - 1))

CheckboxFirst(text, label, hits) ==
    IF hits = {} THEN 0 ELSE CheckboxValue(text, CheckboxValueAt(text, label, MinOf(hits)))

CheckboxSearch(text, label, up) ==
    CheckboxFirst(text, label,
        {i \in 1..Len(text) :
            /\ Sub(up, i, i + Len(label) - 1) = label
            /\ WordBoundary(text, i)
            /\ Ch(text, CheckboxValueAt(text, label, i)) \in CheckboxChars})

parse_checkbox_value(text, label) == CheckboxSearch(text, label, Upper(text))

ApprovalHead == <<P("12.", "*"), P("APPROVAL", "+"), P("OR", "+"), P("DISAPPROVAL", "")>>

\* group(0) of the search for section 12, None without a match
ApprovalGroup(text, up, i0) ==
    IF i0 = 0 THEN None
    ELSE Sub(text, i0,
             LazyEnd(up, MatchElems(up, i0, ApprovalHead),
                     {<<P("\n13.", "+")>>, <<P("\nRISK ASSESSMENT MATRIX", "")>>}) - 1)

ApprovalSearch(text, up) == ApprovalGroup(text, up, SearchElems(up, ApprovalHead, 1))

ApprovalSection(text) == ApprovalSearch(text, Upper(text))

\* A static label line of section 12
IsStaticLabel(line) ==
    \/ MatchElems(Upper(LStrip(line)), 1, ApprovalHead) # 0
    \/ Upper(Strip(line)) \in {"APPROVE", "DISAPPROVE"}

DisapprovalPhrases ==
    { <<P("DISAPPROVED", "")>>, <<P("DISAPPROVAL", "")>>, <<P("NOT", "+"), P("APPROVED", "")>>,
      <<P("DO", "+"), P("NOT", "+"), P("APPROVE", "")>>, <<P("WITHHOLD", "+"), P("APPROVAL", "")>> }

\* [approve, disapprove] of section 12: the check boxes, else the inference
ApprovalInferred(signed, disapproving) ==
    IF signed /\ ~disapproving THEN [approve |-> 1, disapprove |-> 0]
    ELSE IF disapproving /\ ~signed THEN [approve |-> 0, disapprove |-> 1]
    ELSE [approve |-> 0, disapprove |-> 0]

mentions_disapprove(section) ==
    \E ph \in DisapprovalPhrases : HasWord(section, ph)

filtered_section(approval_section) ==
    Join(SelectSeq(SplitOn(FoldCr(approval_section), "\n"),
                   LAMBDA line : ~IsStaticLabel(line)), "\n")

has_signature(approval_section) ==
    SearchElems(Upper(approval_section),
                <<P("DIGITALLY", "+"), P("SIGNED", "+"), P("BY", "")>>, 1) # 0

\* A decision that lets a marked approval clear the disapproval.
ExclusiveDecision(approve_mark, disapprove_mark, approval_section) ==
    IF approve_mark # 0 THEN [approve |-> approve_mark, disapprove |-> 0]
    ELSE IF approval_section = None \/ disapprove_mark # 0
    THEN [approve |-> approve_mark, disapprove |-> disapprove_mark]
    ELSE ApprovalInferred(has_signature(approval_section),
                          mentions_disapprove(filtered_section(approval_section)))

ApprovalDecision(approve_mark, disapprove_mark, approval_section) ==
    IF approval_section = None \/ approve_mark # 0 \/ disapprove_mark # 0
    THEN [approve |-> approve_mark, disapprove |-> disapprove_mark]
    ELSE ApprovalInferred(has_signature(approval_section),
                          mentions_disapprove(filtered_section(approval_section)))

Approval(text) ==
    ApprovalDecision(parse_checkbox_value(text, "APPROVE:"),
                     parse_checkbox_value(text, "DISAPPROVE:"), ApprovalSection(text))

(***************************************************************************)
(* Heuristic text parser: the prepared-by fields (section 3)               *)
(***************************************************************************)
\* The start of the whitespace run that ends just before position k
WsRunStart(s, k) == MaxOf({r \in 1..k : r = 1 \/ ~IsSpace(Ch(s, r - 1))})

\* (?:^|\n)\s* ends just before position k
AtLineStart(s, k) ==
    LET r == WsRunStart(s, k) IN r = 1 \/ Contains(Sub(s, r, k - 1), "\n")

LabelLetters == "ABCDEFGHI"

IsLabelLetter(c) == c # "" /\ Contains(LabelLetters, UpperCh(c))

\* The end of the digits that start at position k (k itself without digits)
DigitsEnd(s, k) == MinOf({j \in k..(Len(s) + 1) : Ch(s, j) \notin Digits})

\* The token at position k of remainder bounds the value: a lettered label at
\* a line start or after two blanks, or a numbered section at a line start.
IsBoundary(remainder, k) ==
    \/ /\ IsLabelLetter(Ch(remainder, k))
       /\ Ch(remainder, k + 1) = "."
       /\ IsSpace(Ch(remainder, k + 2))
       /\ AtLineStart(remainder, k) \/ k - WsRunStart(remainder, k) >= 2
    \/ /\ Ch(remainder, k) \in Digits
       /\ Ch(remainder, DigitsEnd(remainder, k)) = "."
       /\ IsSpace(Ch(remainder, DigitsEnd(remainder, k) + 1))
       /\ AtLineStart(remainder, k)

\* re.sub(head .*? "equal to numbered items on form)", "", window, I | DOTALL)
RECURSIVE RemoveInstructions(_, _)
InstructionClosing == "EQUAL TO NUMBERED ITEMS ON FORM)"

InstructionRemoved(window, head, i0, c) ==
    IF c = 0 THEN window
    ELSE Sub(window, 1, i0 - 1)
             \o RemoveInstructions(From(window, c + Len(InstructionClosing) - 1), head)

InstructionMatch(window, head, up, i0) ==
    IF i0 = 0 THEN window
    ELSE InstructionRemoved(window, head, i0,
                            FindFrom(up, InstructionClosing, MatchElems(up, i0, head)))

InstructionSearch(window, head, up) ==
    InstructionMatch(window, head, up, SearchElems(up, head, 1))

RemoveInstructions(window, head) == InstructionSearch(window, head, Upper(window))

InstructionHeads ==
    << <<P("(1)", "*"), P("IDENTIFY THE HAZARDS", "")>>,
       <<P("FIVE STEPS OF RISK MANAGEMENT:", "")>> >>

\* descriptor_patterns: the label text of each field, by letter
DescriptorHeads ==
    << <<P("NAME", "")>>,
       <<P("RANK", "*"), P("/", "?*"), P("GRADE", "")>>,
       <<P("DUTY", "*"), P("TITLE", "*"), P("/", "?*"), P("POSITION", "")>>,
       <<P("UNIT", "")>>,
       <<P("WORK", "*"), P("EMAIL", "")>>,
       <<P("TELEPHONE", "")>>,
       <<P("UIC", "*"), P("/", "?*"), P("CIN", "")>>,
       <<P("TRAINING", "*"), P("SUPPORT/LESSON", "*"), P("PLAN", "*"), P("OR", "*"),
         P("OPORD", "")>>,
       <<P("SIGNATURE", "*"), P("OF", "*"), P("PREPARER", "")>> >>

\* re.sub(r"^HEAD(?:\s*\([^)]*\))?\s*[:\-]?\s*", "", line, I)
DescriptorAfterMark(line, m) == IF Ch(line, m) \in {":", "-"} THEN m + 1 ELSE m

DescriptorRest(line, afterParen) ==
    From(line, SkipWs(line, DescriptorAfterMark(line, SkipWs(line, afterParen))) - 1)

DescriptorAfterParen(line, h, o, close) ==
    IF Ch(line, o) = "(" /\ close # 0 THEN close + 1 ELSE h

DescriptorParen(line, h, o) ==
    DescriptorRest(line, DescriptorAfterParen(line, h, o, FindFrom(line, ")", o + 1)))

DescriptorLabel(line, h) == IF h = 0 THEN line ELSE DescriptorParen(line, h, SkipWs(line, h))

StripDescriptor(line, head) == DescriptorLabel(line, MatchElems(Upper(line), 1, head))

\* value_after(tag_letter, text); letter is the index of the tag letter
ValueOrNone(value_text) == IF value_text = "" THEN None ELSE value_text

\* lines[0] = lines[0].lstrip("):- ")
TrimmedFirst(kept) ==
    IF kept = <<>> THEN kept
    ELSE <<LStripChars(kept[1], {")", ":", "-", " "})>> \o Tail(kept)

\* the first line is dropped when nothing is left of it
KeptLinesOf(cleaned_first, lines) ==
    IF cleaned_first # "" THEN <<cleaned_first>> \o Tail(lines) ELSE Tail(lines)

ValueOfLines(letter, lines) ==
    IF lines = <<>> THEN None
    ELSE ValueOrNone(Strip(CollapseWs(Join(
             SelectSeq(TrimmedFirst(KeptLinesOf(
                           Strip(StripDescriptor(lines[1], DescriptorHeads[letter])), lines)),
                       LAMBDA l : l # ""),
             " "))))

ValueOfWindow(letter, cut) ==
    ValueOfLines(letter,
        StrippedLines(Strip(RemoveInstructions(
            Strip(RemoveInstructions(Strip(cut), InstructionHeads[1])),
            InstructionHeads[2]))))

ValueCut(letter, remainder, boundaries) ==
    ValueOfWindow(letter, IF boundaries = {} THEN remainder
                          ELSE Sub(remainder, 1, MinOf(boundaries) - 1))

ValueOfRemainder(letter, remainder) ==
    ValueCut(letter, remainder, {k \in 1..Len(remainder) : IsBoundary(remainder, k)})

ValueAtLabels(letter, text, labels) ==
    IF labels = {} THEN None
    ELSE ValueOfRemainder(letter, From(text, SkipWs(text, MinOf(labels) + 2) - 1))

value_after(letter, text) ==
    ValueAtLabels(letter, text,
        {k \in 1..Len(text) :
            /\ UpperCh(Ch(text, k)) = Ch(LabelLetters, letter)
            /\ Ch(text, k + 1) = "."
            /\ AtLineStart(text, k)})

SignatureInstructionPhrases ==
    {"five steps", "risk management", "identify the hazards", "assess the hazards"}

\* extract_prepared_by_fields(text): the nine fields in the order of the labels
\* the signature field is blank when it only repeats the form's instructions
PreparedByField(i, v) ==
    IF i = 9 /\ v # None /\ \E ph \in SignatureInstructionPhrases : Contains(Lower(v), ph)
    THEN None ELSE v

extract_prepared_by_fields(text) == [i \in 1..9 |-> PreparedByField(i, value_after(i, text))]

(***************************************************************************)
(* Heuristic text parser: parse_dd2977                                     *)
(***************************************************************************)
MissionTask(text) ==
    CleanValue(LineSection(text, <<P("1.", "*"), P("MISSION/TASK", "")>>,
                           {<<P("\n2.", "*"), P("DATE", "")>>}))

DatePrepared(text) ==
    CleanValue(LineSection(text, <<P("2.", "*"), P("DATE PREPARED", "")>>,
                           {<<P("\n3.", "*"), P("PREPARED", "")>>}))

\* order: the iteration order of the hazard vocabulary in this process
MappedLevel(plan_level) == IF plan_level = None THEN None ELSE PlanRiskMap(plan_level)

\* the level the narrative of the supervision plan names
RefinedLevel(plan) == IF plan \in {None, ""} THEN None ELSE MappedLevel(PlanLevel(plan))

TextRecord(text, subtask_rows, overall_residual, plan, mapped_level, approval) ==
    IF IsRaise(overall_residual) THEN Raised(overall_residual)
    ELSE [get_dd2977_template EXCEPT
            !.mission_task_and_description = MissionTask(text),
            !.date = DatePrepared(text),
            !.prepared_by = extract_prepared_by_fields(text),
            !.subtasks = subtask_rows,
            !.overall_residual_risk_level =
                IF mapped_level # None THEN mapped_level ELSE overall_residual,
            !.overall_supervision_plan = plan,
            !.approve = approval.approve,
            !.disapprove = approval.disapprove]

TextLevels(text, subtask_rows, overall_residual, plan) ==
    TextRecord(text, subtask_rows, overall_residual, plan, RefinedLevel(plan), Approval(text))

TextRows(text, subtask_rows) ==
    TextLevels(text, subtask_rows, OverallResidual(ExplicitOverall(text), subtask_rows),
               SupervisionPlan(text))

parse_dd2977(text, order) == TextRows(text, extract_subtask_rows(text, order))

(***************************************************************************)
(* Output assembler: slugify, the date of the identifier, build_outpath     *)
(***************************************************************************)
StripChars(s, chars) ==
    LET keep == {j \in 1..Len(s) : Ch(s, j) \notin chars}
    IN  IF keep = {} THEN "" ELSE Sub(s, MinOf(keep), MaxOf(keep))

\* re.sub(r"[^a-z0-9]+", "-", s)
DashRuns(s) ==
    Concat([i \in 1..Len(s) |->
        IF IsAlnumLower(Ch(s, i)) THEN Ch(s, i)
        ELSE IF i > 1 /\ ~IsAlnumLower(Ch(s, i - 1)) THEN "" ELSE "-"])

\* re.sub(r"-{2,}", "-", s)
CollapseDashes(s) ==
    Concat([i \in 1..Len(s) |->
        IF Ch(s, i) = "-" /\ i > 1 /\ Ch(s, i - 1) = "-" THEN "" ELSE Ch(s, i)])

\* A slug that keeps the hyphens at its ends.
SlugUntrimmed(s) ==
    LET slug == CollapseDashes(DashRuns(Lower(s)))
    IN  IF slug = "" THEN "draw" ELSE slug

slugify(s) ==
    LET slug == StripChars(CollapseDashes(DashRuns(Lower(s))), {"-"})
    IN  IF slug = "" THEN "draw" ELSE slug

AllDigits(s) == \A k \in 1..Len(s) : Ch(s, k) \in Digits

\* re.search(r"\b(20\d{6})\b", stem) or re.search(r"\b(\d{8})\b", stem)
find_date_in_name(stem) ==
    LET runs == {i \in 1..(Len(stem) - 7) :
                    /\ AllDigits(Sub(stem, i, i + 7))
                    /\ WordBoundary(stem, i)
                    /\ WordBoundary(stem, i + 8)}
        century == {i \in runs : Sub(stem, i, i + 1) = "20"}
    IN  IF century # {} THEN Sub(stem, MinOf(century), MinOf(century) + 7)
        ELSE IF runs # {} THEN Sub(stem, MinOf(runs), MinOf(runs) + 7)
        ELSE None

NoDate == [ok |-> FALSE]

MonthAbbrs == <<"jan", "feb", "mar", "apr", "may", "jun", "jul", "aug", "sep", "oct", "nov", "dec">>

MonthNames ==
    <<"january", "february", "march", "april", "may", "june", "july", "august", "september",
      "october", "november", "december">>

IsLeap(y) == (y % 4 = 0 /\ y % 100 # 0) \/ y % 400 = 0

DaysInMonth(y, m) ==
    IF m = 2 THEN (IF IsLeap(y) THEN 29 ELSE 28)
    ELSE IF m \in {4, 6, 9, 11} THEN 30 ELSE 31

\* One directive of strptime at position i of s: [ok, next, y, m, d] from acc.
\* The alternatives of a directive are tried in the order of _strptime.
Directive(s, i, tok, acc) ==
    LET c1 == Ch(s, i)
        c2 == Ch(s, i + 1)
        fail == [acc EXCEPT !.ok = FALSE]
        names == IF tok = "b" THEN MonthAbbrs ELSE MonthNames
        named == {k \in 1..12 : Lower(Sub(s, i, i + Len(names[k]) - 1)) = names[k]}
    IN  CASE tok = "Y" ->
               IF Len(Sub(s, i, i + 3)) = 4 /\ AllDigits(Sub(s, i, i + 3))
               THEN [acc EXCEPT !.y = NatOf(Sub(s, i, i + 3)), !.next = i + 4] ELSE fail
          [] tok = "y" ->
               IF Len(Sub(s, i, i + 1)) = 2 /\ AllDigits(Sub(s, i, i + 1))
               THEN [acc EXCEPT !.y = IF NatOf(Sub(s, i, i + 1)) >= 69
                                      THEN 1900 + NatOf(Sub(s, i, i + 1))
                                      ELSE 2000 + NatOf(Sub(s, i, i + 1)),
                                !.next = i + 2]
               ELSE fail
          [] tok = "m" ->
               IF (c1 = "1" /\ c2 \in {"0", "1", "2"}) \/ (c1 = "0" /\ c2 \in Digits \ {"0"})
               THEN [acc EXCEPT !.m = NatOf(c1 \o c2), !.next = i + 2]
               ELSE IF c1 \in Digits \ {"0"} THEN [acc EXCEPT !.m = NatOf(c1), !.next = i + 1]
               ELSE fail
          [] tok = "d" ->
               IF \/ (c1 = "3" /\ c2 \in {"0", "1"})
                  \/ (c1 \in {"1", "2"} /\ c2 \in Digits)
                  \/ (c1 = "0" /\ c2 \in Digits \ {"0"})
               THEN [acc EXCEPT !.d = NatOf(c1 \o c2), !.next = i + 2]
               ELSE IF c1 \in Digits \ {"0"} THEN [acc EXCEPT !.d = NatOf(c1), !.next = i + 1]
               ELSE IF c1 = " " /\ c2 \in Digits \ {"0"}
               THEN [acc EXCEPT !.d = NatOf(c2), !.next = i + 2]
               ELSE fail
          [] tok \in {"b", "B"} ->
               IF named = {} THEN fail
               ELSE [acc EXCEPT !.m = MinOf(named), !.next = i + Len(names[MinOf(named)])]
          [] tok = " " ->
               IF IsSpace(c1) THEN [acc EXCEPT !.next = SkipWs(s, i)] ELSE fail
          [] OTHER ->
               IF c1 = tok THEN [acc EXCEPT !.next = i + 1] ELSE fail

RECURSIVE Directives(_, _, _)
Directives(s, fmt, acc) ==
    IF fmt = <<>> \/ ~acc.ok THEN acc
    ELSE Directives(s, Tail(fmt), Directive(s, acc.next, Head(fmt), acc))

\* datetime.strptime(s, fmt): the date, or NoDate when it raises ValueError
ParsedDate(s, r) ==
    IF r.ok /\ r.next = Len(s) + 1 /\ r.y >= 1 /\ r.d <= DaysInMonth(r.y, r.m)
    THEN [ok |-> TRUE, y |-> r.y, m |-> r.m, d |-> r.d] ELSE NoDate

strptime(s, fmt) ==
    ParsedDate(s, Directives(s, fmt, [ok |-> TRUE, next |-> 1, y |-> 1900, m |-> 1, d |-> 1]))

Pad2(n) == IF n < 10 THEN "0" \o NatToStr(n) ELSE NatToStr(n)

\* strftime("%Y%m%d"): the C library does not pad the year
strftime(date) == NatToStr(date.y) \o Pad2(date.m) \o Pad2(date.d)

\* fmts of normalize_date_to_yyyymmdd, one directive or literal per element
DateFormats ==
    << <<"Y", "-", "m", "-", "d">>, <<"m", "/", "d", "/", "Y">>, <<"d", "/", "m", "/", "Y">>,
       <<"d", "b", "Y">>, <<"d", "b", "y">>, <<"d", " ", "b", " ", "Y">>,
       <<"d", " ", "B", " ", "Y">> >>

\* re.search(r"(20\d{2})[-/.]?(0[1-9]|1[0-2])[-/.]?(0[1-9]|[12]\d|3[01])", s): the
\* three groups joined, None without a match
PatternSep(s, i) == IF Ch(s, i) \in {"-", "/", "."} THEN i + 1 ELSE i

PatternTwo(s, i) == Sub(s, i, i + 1)

\* the two digits at m are a month, the two at d a day
PatternFields(s, m, d) ==
    /\ Len(PatternTwo(s, m)) = 2 /\ AllDigits(PatternTwo(s, m))
    /\ NatOf(PatternTwo(s, m)) \in 1..12
    /\ Len(PatternTwo(s, d)) = 2 /\ AllDigits(PatternTwo(s, d))
    /\ NatOf(PatternTwo(s, d)) \in 1..31

PatternDay(s, m) == PatternSep(s, m + 2)

PatternMonth(s, i) == PatternSep(s, i + 4)

PatternJoined(s, i0, m) ==
    Sub(s, i0, i0 + 3) \o PatternTwo(s, m) \o PatternTwo(s, PatternDay(s, m))

PatternFirst(s, hits) ==
    IF hits = {} THEN None ELSE PatternJoined(s, MinOf(hits), PatternMonth(s, MinOf(hits)))

DateByPattern(s) ==
    PatternFirst(s, {i \in 1..Len(s) :
                        /\ Sub(s, i, i + 1) = "20"
                        /\ Len(Sub(s, i, i + 3)) = 4 /\ AllDigits(Sub(s, i, i + 3))
                        /\ PatternFields(s, PatternMonth(s, i),
                                         PatternDay(s, PatternMonth(s, i)))})

FormattedDate(s, parsed) ==
    IF parsed # {} THEN strftime(strptime(Strip(s), DateFormats[MinOf(parsed)]))
    ELSE DateByPattern(s)

normalize_date_to_yyyymmdd(s) ==
    IF s = "" THEN None
    ELSE FormattedDate(s, {k \in 1..Len(DateFormats) : strptime(Strip(s), DateFormats[k]).ok})

\* The civil date of a day number counted from 1970-01-01
DateOfDays(days) ==
    LET z == days + 719468
        era == z \div 146097
        doe == z - era * 146097
        yoe == (doe - doe \div 1460 + doe \div 36524 - doe \div 146096) \div 365
        doy == doe - (365 * yoe + yoe \div 4 - yoe \div 100)
        mp == (5 * doy + 2) \div 153
        m == IF mp < 10 THEN mp + 3 ELSE mp - 9
    IN  [ok |-> TRUE, y |-> yoe + era * 400 + (IF m <= 2 THEN 1 ELSE 0), m |-> m,
         d |-> doy - (153 * mp + 2) \div 5 + 1]

\* datetime.fromtimestamp(st_mtime) in a process whose local time is UTC
fromtimestamp(st_mtime) == DateOfDays(st_mtime \div 86400)

\* build_outpath(pdf_path, parsed, outdir): the file name under outdir
\* date_part = find_date_in_name(...) or normalize_date_to_yyyymmdd(...) or the mtime's date
DatePart(in_name, in_record, st_mtime) ==
    IF in_name # None THEN in_name
    ELSE IF in_record # None THEN in_record
    ELSE strftime(fromtimestamp(st_mtime))

build_outpath(stem, st_mtime, parsed) ==
    DatePart(find_date_in_name(stem),
             normalize_date_to_yyyymmdd(IF parsed.date = None THEN "" ELSE parsed.date),
             st_mtime)
        \o "-" \o slugify(stem) \o ".json"

(***************************************************************************)
(* Documents and the environment.  A PDF file is                            *)
(*   [dir, stem, st_mtime, xfa, native, layout, ocr]                        *)
(* dir: index of its directory; xfa: [state, data], the embedded dataset;   *)
(* native: [opens, pages] the text layer as fitz sees it (a page None when  *)
(* get_text returns nothing); layout: [opens, text] what pdfminer returns;  *)
(* ocr: [rasterizes, recognizes, pages] what pdf2image and tesseract do.    *)
(* installed: the optional libraries importable in the process.             *)
(***************************************************************************)
Libraries == {"fitz", "pdfminer", "pytesseract", "pikepdf"}

RaiseTesseractError == "<TesseractError>"

IsException(r) == r \in {RaiseValueError, RaiseOverflowError, RaiseTesseractError}

extract_text_pymupdf(pdf, installed) ==
    IF "fitz" \notin installed THEN ""
    ELSE IF ~pdf.native.opens THEN ""
    ELSE Join([i \in 1..Len(pdf.native.pages) |->
                  IF pdf.native.pages[i] = None THEN "" ELSE pdf.native.pages[i]], "\n")

extract_text_pdfminer(pdf, installed) ==
    IF "pdfminer" \notin installed THEN ""
    ELSE IF ~pdf.layout.opens THEN ""
    ELSE IF pdf.layout.text = None THEN "" ELSE pdf.layout.text

\* The recognition of the pages is outside every try block: its failure is raised.
extract_text_ocr(pdf, installed) ==
    IF "pytesseract" \notin installed THEN ""
    ELSE IF ~pdf.ocr.rasterizes THEN ""
    ELSE IF pdf.ocr.pages # <<>> /\ ~pdf.ocr.recognizes THEN RaiseTesseractError
    ELSE Join(pdf.ocr.pages, "\n")

\* The chain with the layout-aware backend ahead of the native one.
LayoutFirstOrder == <<"extract_text_pdfminer", "extract_text_pymupdf", "extract_text_ocr">>

BackendOrder == <<"extract_text_pymupdf", "extract_text_pdfminer", "extract_text_ocr">>

Backend(fn, pdf, installed) ==
    CASE fn = "extract_text_pymupdf" -> extract_text_pymupdf(pdf, installed)
      [] fn = "extract_text_pdfminer" -> extract_text_pdfminer(pdf, installed)
      [] fn = "extract_text_ocr" -> extract_text_ocr(pdf, installed)

\* The loop of extract_text_multibackend from the k-th backend on.  The result
\* is [text, calls]: the returned transcript (or the exception raised) and the
\* backends invoked, in order.
RECURSIVE TryBackends(_, _, _, _)
TriedBackend(pdf, installed, k, calls, fn, txt) ==
    IF IsException(txt) THEN [text |-> txt, calls |-> Append(calls, fn)]
    ELSE IF txt # "" /\ Strip(txt) # ""
    THEN [text |-> normalize_text(txt), calls |-> Append(calls, fn)]
    ELSE TryBackends(pdf, installed, k + 1, Append(calls, fn))

TryBackends(pdf, installed, k, calls) ==
    IF k > Len(BackendOrder) THEN [text |-> "", calls |-> calls]
    ELSE TriedBackend(pdf, installed, k, calls, BackendOrder[k],
                      Backend(BackendOrder[k], pdf, installed))

ForcedOcr(txt) ==
    [text |-> IF IsException(txt) THEN txt ELSE normalize_text(txt),
     calls |-> <<"extract_text_ocr">>]

extract_text_multibackend(pdf, force_ocr, installed) ==
    IF force_ocr THEN ForcedOcr(extract_text_ocr(pdf, installed))
    ELSE TryBackends(pdf, installed, 1, <<>>)

\* The payload of the dataset, PNone when there is none or it cannot be read
extract_xfa_dataset_from_pdf(pdf, installed) ==
    IF "pikepdf" \notin installed THEN PNone
    ELSE IF pdf.xfa.state # "data" THEN PNone
    ELSE _xml_node_to_obj(pdf.xfa.data)

\* A pipeline that does not look for the placeholder page.
PlaceholderUnchecked(text) == FALSE

IsPlaceholder(text) == Contains(text, "Please wait") /\ Contains(text, "Adobe Reader")

PlaceholderDiagnostic == "Detected an XFA-based PDF"
EmptyDiagnostic == "Failed to extract text"
ErrorDiagnostic == "Error processing"
WroteDiagnostic == "Wrote"

\* The outcome of one call of process_pdf: [ok, diag, calls, text, name, record];
\* text is the transcript the backends returned (or the exception they raised), None
\* when they were not asked; name = None when nothing is written.
Outcome(ok, diag, calls, text, name, record) ==
    [ok |-> ok, diag |-> diag, calls |-> calls, text |-> text, name |-> name,
     record |-> record]

\* json.dumps and write_text of a record; an exception ends the call
ProcessWritten(pdf, calls, text, record) ==
    IF record.kind = "raise"
    THEN Outcome(FALSE, ErrorDiagnostic, calls, text, None, NoRecord)
    ELSE Outcome(TRUE, WroteDiagnostic, calls, text,
                 build_outpath(pdf.stem, pdf.st_mtime, record), record)

ProcessText(pdf, order, text, before) ==
    IF IsException(text) THEN Outcome(FALSE, ErrorDiagnostic, before, text, None, NoRecord)
    ELSE IF IsPlaceholder(text)
    THEN Outcome(FALSE, PlaceholderDiagnostic, before, text, None, NoRecord)
    ELSE IF Strip(text) = ""
    THEN Outcome(FALSE, EmptyDiagnostic, before, text, None, NoRecord)
    ELSE ProcessWritten(pdf, Append(before, "parse_dd2977"), text,
                        parse_dd2977(text, order))

ProcessAcquired(pdf, order, acquired) ==
    ProcessText(pdf, order, acquired.text, <<"parse_dd2977_xfa">> \o acquired.calls)

\* A pipeline that sends every document through the text backends.
ProcessTextOnly(pdf, force_ocr, order, installed, parsed) ==
    ProcessAcquired(pdf, order, extract_text_multibackend(pdf, force_ocr, installed))

ProcessStructured(pdf, force_ocr, order, installed, parsed) ==
    IF parsed.kind = "none"
    THEN ProcessAcquired(pdf, order, extract_text_multibackend(pdf, force_ocr, installed))
    ELSE ProcessWritten(pdf, <<"parse_dd2977_xfa">>, None, parsed)

process_pdf(pdf, force_ocr, order, installed) ==
    ProcessStructured(pdf, force_ocr, order, installed,
                      parse_dd2977_xfa(extract_xfa_dataset_from_pdf(pdf, installed)))

XfaFailedError == "XFA parsing failed"
ExtractionFailedError == "Text extraction failed"
PlaceholderError == "Detected XFA form but XFA dependencies are missing"
EmptyError == "Unable to extract text"

\* parse_draw_file(pdf_path): [payload, error, calls, text, raised]; raised when the
\* call itself raises (parse_dd2977 is called outside the try blocks).
DrawResult(payload, error, calls, text, raised) ==
    [payload |-> payload, error |-> error, calls |-> calls, text |-> text,
     raised |-> raised]

DrawParsed(calls, text, record) ==
    IF record.kind = "raise" THEN DrawResult(NoRecord, None, calls, text, TRUE)
    ELSE DrawResult(record, None, calls, text, FALSE)

DrawText(order, text, before) ==
    IF IsException(text)
    THEN DrawResult(NoRecord, ExtractionFailedError, before, text, FALSE)
    ELSE IF IsPlaceholder(text)
    THEN DrawResult(NoRecord, PlaceholderError, before, text, FALSE)
    ELSE IF Strip(text) = "" THEN DrawResult(NoRecord, EmptyError, before, text, FALSE)
    ELSE DrawParsed(Append(before, "parse_dd2977"), text, parse_dd2977(text, order))

DrawAcquired(order, acquired) ==
    DrawText(order, acquired.text, <<"parse_dd2977_xfa">> \o acquired.calls)

DrawStructured(pdf, order, installed, parsed) ==
    IF parsed.kind = "raise"
    THEN DrawResult(NoRecord, XfaFailedError, <<"parse_dd2977_xfa">>, None, FALSE)
    ELSE IF IsRecord(parsed)
    THEN DrawResult(parsed, None, <<"parse_dd2977_xfa">>, None, FALSE)
    ELSE DrawAcquired(order, extract_text_multibackend(pdf, FALSE, installed))

parse_draw_file(pdf, order, installed) ==
    DrawStructured(pdf, order, installed,
                   parse_dd2977_xfa(extract_xfa_dataset_from_pdf(pdf, installed)))

(***************************************************************************)
(* The file system of the model: four directories under one base            *)
(* directory and seven PDF files.  Directories and files are listed in the  *)
(* order of their names, so that sorted() is the order of the indices.      *)
(***************************************************************************)
NoData == Elem("data", None, <<>>)

Leaf(tag, text) == Elem(tag, text, <<>>)

NoXfa == [state |-> "no_acroform", data |-> NoData]

\* A filled form: three rows, of which only the first carries a name
FilledDataset ==
    Elem("data", None, <<Elem("form1", None, <<Elem("Page1", None, <<
        Leaf("One", "Convoy to range"),
        Leaf("Two", "2024-05-06"),
        Elem("Part4thru9", None, <<
            Elem("Row1", None, <<Leaf("Subtask", "Move"), Leaf("Hazard", "Rollover"),
                                 Leaf("InitialRiskLevel", "High"), Leaf("RRL", "Medium")>>),
            Elem("Row2", None, <<Leaf("Hazard", "Heat"), Leaf("InitialRiskLevel", "2"),
                                 Leaf("RRL", "Low")>>),
            Elem("Row3", None, <<Leaf("Hazard", "Dust"), Leaf("InitialRiskLevel", " Severe "),
                                 Leaf("RRL", "negligible")>>)>>),
        Elem("Twelve", None, <<Leaf("Approve", "1"), Leaf("Disapprove", "0")>>)>>)>>)>>)

\* A form whose only residual risk is the text "nan"
NanDataset ==
    Elem("data", None, <<Elem("form1", None, <<Elem("Page1", None, <<
        Leaf("One", "Roster"),
        Elem("Part4thru9", None, <<
            Elem("Row1", None, <<Leaf("Subtask", "Drive"), Leaf("RRL", "nan")>>)>>)>>)>>)>>)

\* The text layer of a flat form: three rows, of which only the first carries a name
RangeText ==
    "9. RESIDUAL RISK LEVEL\n+\n-\nRANGE\nFire injury\nH\n- Brief all\nM\n+\n-\nEH\n- Shade\nH\n+\n-\nSevere heat injury\nDehydration\n2\n- Drink\nL\n10. OVERALL RESIDUAL RISK LEVEL: HIGH\n"

ConvoyPages ==
    <<"9. RESIDUAL RISK LEVEL\n+\n-\nConvoy\r\nRollover  risk\nM\n- Belts\nL",
      "12. APPROVAL OR DISAPPROVAL\nDigitally signed by X">>

PlaceholderText ==
    "Please wait...\nIf this message is not eventually replaced, get Adobe Reader."

DirTable ==
    <<[name |-> "alpha", ppt |-> "text", ppt_stem |-> "Conop Alpha"],
      [name |-> "bravo", ppt |-> "unreadable", ppt_stem |-> "conop"],
      [name |-> "charlie", ppt |-> "none", ppt_stem |-> ""],
      [name |-> "delta", ppt |-> "empty", ppt_stem |-> "plan"]>>

Catalogue ==
    <<\* alpha/draw.pdf: a filled interactive form over a garbled text layer
      [dir |-> 1, stem |-> "draw", st_mtime |-> 1709251200,
       xfa |-> [state |-> "data", data |-> FilledDataset],
       native |-> [opens |-> TRUE, pages |-> <<"%% 9. RESIDUAL ##", "10. OVERALL">>],
       layout |-> [opens |-> TRUE, text |-> "garbled"],
       ocr |-> [rasterizes |-> TRUE, recognizes |-> TRUE, pages |-> <<"garbled">>]],
      \* alpha/report.pdf: a flat form with a text layer
      [dir |-> 1, stem |-> "report", st_mtime |-> 1714982400,
       xfa |-> NoXfa,
       native |-> [opens |-> TRUE, pages |-> <<RangeText>>],
       layout |-> [opens |-> TRUE, text |-> "other text"],
       ocr |-> [rasterizes |-> TRUE, recognizes |-> TRUE, pages |-> <<>>]],
      \* bravo/report.pdf: a scan written the same day, readable by OCR only
      [dir |-> 2, stem |-> "report", st_mtime |-> 1715016600,
       xfa |-> NoXfa,
       native |-> [opens |-> TRUE, pages |-> <<None, "">>],
       layout |-> [opens |-> TRUE, text |-> " \n\t"],
       ocr |-> [rasterizes |-> TRUE, recognizes |-> TRUE, pages |-> ConvoyPages]],
      \* charlie/scan.pdf: nothing readable
      [dir |-> 3, stem |-> "scan 20240506", st_mtime |-> 1704067199,
       xfa |-> [state |-> "malformed", data |-> NoData],
       native |-> [opens |-> FALSE, pages |-> <<>>],
       layout |-> [opens |-> TRUE, text |-> None],
       ocr |-> [rasterizes |-> FALSE, recognizes |-> TRUE, pages |-> <<>>]],
      \* charlie/xform.pdf: an interactive form whose dataset stream is missing
      [dir |-> 3, stem |-> "xform", st_mtime |-> 1704067199,
       xfa |-> [state |-> "no_datasets", data |-> NoData],
       native |-> [opens |-> TRUE, pages |-> <<PlaceholderText>>],
       layout |-> [opens |-> TRUE, text |-> PlaceholderText],
       ocr |-> [rasterizes |-> TRUE, recognizes |-> TRUE, pages |-> <<>>]],
      \* delta/photo.pdf: a scan on which the recognition fails
      [dir |-> 4, stem |-> "photo", st_mtime |-> 1704067199,
       xfa |-> NoXfa,
       native |-> [opens |-> TRUE, pages |-> <<"">>],
       layout |-> [opens |-> FALSE, text |-> None],
       ocr |-> [rasterizes |-> TRUE, recognizes |-> FALSE, pages |-> <<"page">>]],
      \* delta/roster.pdf: a form with a residual risk "nan", over a text layer
      [dir |-> 4, stem |-> "roster", st_mtime |-> 1714982400,
       xfa |-> [state |-> "data", data |-> NanDataset],
       native |-> [opens |-> TRUE, pages |-> <<RangeText>>],
       layout |-> [opens |-> TRUE, text |-> RangeText],
       ocr |-> [rasterizes |-> TRUE, recognizes |-> TRUE, pages |-> <<>>]]>>

DocIds == 1..Len(Catalogue)

PathOf(doc) == DirTable[Catalogue[doc].dir].name \o "/" \o Catalogue[doc].stem \o ".pdf"

\* The iteration orders of the set COMMON_HAZARD_PREFIXES the model considers
Reverse(list) == [i \in 1..Len(list) |-> list[Len(list) + 1 - i]]

HashOrders == {COMMON_HAZARD_PREFIXES, Reverse(COMMON_HAZARD_PREFIXES)}

Installations == {Libraries, Libraries \ {"pikepdf"}, {}}

Drivers == {"process_pdf", "batch_process", "main"}

\* The longest batch and the number of times the single-file command is run
MaxFiles == 2
MaxRuns == 2

Perms(S) == {q \in [1..Cardinality(S) -> S] : \A i, j \in 1..Cardinality(S) : q[i] = q[j] => i = j}

\* outpath.write_text(...): the file replaces an older file of the same name
Write(dir, name, content) ==
    {f \in dir : f.name # name} \cup {[name |-> name, content |-> content]}

Pad4(n) ==
    IF n < 10 THEN "000" \o NatToStr(n)
    ELSE IF n < 100 THEN "00" \o NatToStr(n)
    ELSE IF n < 1000 THEN "0" \o NatToStr(n)
    ELSE NatToStr(n)

(***************************************************************************)
(* The drivers.  driver is the command that was started:                    *)
(*   "process_pdf"    parse_draw.py on one file                             *)
(*   "batch_process"  parse_draw.py on a directory                          *)
(*   "main"           batch_parse_conops_draws.py on the base directory     *)
(* files is the set of PDF files that exist; a directory exists when one of *)
(* its files does.  results is the history of the outcomes, one entry per   *)
(* call of process_pdf or parse_draw_file.                                  *)
(***************************************************************************)
(* call and returned serve the function-level specification FunctionSpec    *)
(* below: one call of one function of the program and what it returned.     *)
VARIABLES driver, force_ocr, installed, files, order, pc, runs, pdf_files, directories,
          idx, success_count, dir_id, outdir, conops_outdir, log, skipped, results,
          exit_code, report, call, returned

vars == <<driver, force_ocr, installed, files, order, pc, runs, pdf_files, directories,
          idx, success_count, dir_id, outdir, conops_outdir, log, skipped, results,
          exit_code, report, call, returned>>

environment == <<driver, force_ocr, installed, files, call, returned>>

NoCall == [fn |-> "none"]
\* returned is <<>> while the call is pending, then <<value>>
Pending == <<>>
Result == returned[1]

Init ==
    /\ driver \in Drivers
    /\ force_ocr \in (IF driver = "main" THEN {FALSE} ELSE BOOLEAN)
    /\ installed \in Installations
    /\ files \in {S \in SUBSET DocIds :
                    Cardinality(S) <= (IF driver = "process_pdf" THEN 1 ELSE MaxFiles)}
    /\ order = <<>>
    /\ pc = "start"
    /\ runs = 0
    /\ pdf_files = <<>>
    /\ directories = <<>>
    /\ idx = 0
    /\ success_count = 0
    /\ dir_id = 1
    /\ outdir = {}
    /\ conops_outdir = {}
    /\ log = <<>>
    /\ skipped = <<>>
    /\ results = <<>>
    /\ exit_code = 0
    /\ report = <<>>
    /\ call = NoCall
    /\ returned = Pending

Entry(doc, msg) == [doc |-> doc, msg |-> msg]

\* What one call of process_pdf leaves behind
Stored(dir, outcome) ==
    IF outcome.name = None THEN dir ELSE Write(dir, outcome.name, outcome.record)

\* parse_draw.py <file>: main() calls process_pdf and exits with 2 when it fails.
\* Every run is a new process, with its own iteration order of the vocabulary.
\* main(): ok = process_pdf(...); sys.exit(0 if ok else 2)
ExitWith(doc, outcome) ==
    /\ exit_code' = IF outcome.ok THEN 0 ELSE 2
    /\ log' = Append(log, Entry(doc, outcome.diag))
    /\ outdir' = Stored(outdir, outcome)
    /\ results' = Append(results, [doc |-> doc, order |-> order', outcome |-> outcome])

RunOn(doc, o) == ExitWith(doc, process_pdf(Catalogue[doc], force_ocr, o, installed))

RunProcessPdf ==
    /\ driver = "process_pdf"
    /\ pc \in {"start", "done"}
    /\ runs < MaxRuns
    /\ runs' = runs + 1
    /\ pc' = "done"
    /\ \E o \in HashOrders :
        /\ order' = o
        /\ IF files = {}
           THEN /\ exit_code' = 1
                /\ log' = Append(log, Entry(0, "Input not found"))
                /\ UNCHANGED <<outdir, results>>
           ELSE RunOn(CHOOSE d \in files : TRUE, o)
    /\ UNCHANGED <<environment, pdf_files, directories, idx, success_count, dir_id,
                   conops_outdir, skipped, report>>

\* batch_process: pdf_files = list(input_dir.rglob("*.pdf")), in the order the
\* file system lists them
ListPdfFiles ==
    /\ driver = "batch_process"
    /\ pc = "start"
    /\ order' \in HashOrders
    /\ pdf_files' \in Perms(files)
    /\ IF files = {}
       THEN /\ log' = Append(log, Entry(0, "No PDF files found"))
            /\ pc' = "done"
       ELSE /\ log' = Append(log, Entry(0, "Found " \o NatToStr(Cardinality(files))))
            /\ pc' = "loop"
    /\ success_count' = 0
    /\ idx' = 0
    /\ UNCHANGED <<environment, runs, directories, dir_id, outdir, conops_outdir, skipped,
                   results, exit_code, report>>

\* A loop that counts every attempt as a success.
CountAttempt(doc, outcome) ==
    /\ success_count' = success_count + 1
    /\ log' = Append(log, Entry(doc, outcome.diag))
    /\ outdir' = Stored(outdir, outcome)
    /\ results' = Append(results, [doc |-> doc, order |-> order, outcome |-> outcome])

\* One iteration of the loop of batch_process
\* if process_pdf(...): success_count += 1
CountOutcome(doc, outcome) ==
    /\ success_count' = IF outcome.ok THEN success_count + 1 ELSE success_count
    /\ log' = Append(log, Entry(doc, outcome.diag))
    /\ outdir' = Stored(outdir, outcome)
    /\ results' = Append(results, [doc |-> doc, order |-> order, outcome |-> outcome])

ProcessDoc(doc) == CountOutcome(doc, process_pdf(Catalogue[doc], force_ocr, order, installed))

ProcessNextPdf ==
    /\ driver = "batch_process"
    /\ pc = "loop"
    /\ idx < Len(pdf_files)
    /\ ProcessDoc(pdf_files[idx + 1])
    /\ idx' = idx + 1
    /\ UNCHANGED <<environment, order, pc, runs, pdf_files, directories, dir_id,
                   conops_outdir, skipped, exit_code, report>>

\* The end of batch_process: the summary line
PrintSummary ==
    /\ driver = "batch_process"
    /\ pc = "loop"
    /\ idx = Len(pdf_files)
    /\ log' = Append(log, Entry(0, "Successfully processed " \o NatToStr(success_count)
                                   \o "/" \o NatToStr(Len(pdf_files))))
    /\ pc' = "done"
    /\ UNCHANGED <<environment, order, runs, pdf_files, directories, idx, success_count,
                   dir_id, outdir, conops_outdir, skipped, results, exit_code, report>>

\* main() of the directory driver: the sorted subdirectories of the base directory
ListDirectories ==
    /\ driver = "main"
    /\ pc = "start"
    /\ order' \in HashOrders
    /\ LET dirs == {Catalogue[d].dir : d \in files}
       IN  /\ directories' = [k \in 1..Cardinality(dirs) |-> Kth(dirs, k)]
           /\ log' = IF dirs = {} THEN Append(log, Entry(0, "No subdirectories found"))
                     ELSE log
    /\ pc' = "loop"
    /\ UNCHANGED <<environment, runs, pdf_files, idx, success_count, dir_id, outdir,
                   conops_outdir, skipped, results, exit_code, report>>

Skipped(type, path, reason, id, name) ==
    [type |-> type, path |-> path, reason |-> reason, source_directory_id |-> id,
     source_directory_name |-> name]

\* One iteration of the loop of main(): process_directory and dir_id += 1.
\* The first presentation and the first PDF of the directory are parsed; the
\* sections of a presentation are not modelled.
PptPath(directory) == directory.name \o "/" \o directory.ppt_stem \o ".pptx"

\* the CONOP of the directory: a presentation without text is skipped
AfterPpt(directory) ==
    IF directory.ppt \in {"unreadable", "empty"}
    THEN Append(skipped, Skipped("CONOP", PptPath(directory),
                                 "PPTX contained no extractable text", dir_id, directory.name))
    ELSE skipped

WriteConop(directory) ==
    conops_outdir' =
        IF directory.ppt = "text"
        THEN Write(conops_outdir,
                   Pad4(dir_id) \o "-" \o slugify(directory.ppt_stem) \o "-conop.json",
                   [filename |-> directory.ppt_stem \o ".pptx", path |-> PptPath(directory),
                    source_directory_id |-> dir_id,
                    source_directory_name |-> directory.name])
        ELSE conops_outdir

\* the DRAW of the directory: written, or logged and added to the skipped documents;
\* an exception of parse_dd2977 leaves process_directory and main()
DrawOutcome(directory, pdf, draw, error) ==
    /\ results' = Append(results, [doc |-> pdf, order |-> order,
                     outcome |-> Outcome(IsRecord(draw.payload),
                                         IF IsRecord(draw.payload) THEN "Wrote DRAW"
                                         ELSE error,
                                         draw.calls, draw.text, None, draw.payload)])
    /\ IF draw.raised
       THEN /\ pc' = "aborted"
            /\ skipped' = AfterPpt(directory)
            /\ UNCHANGED <<outdir, log>>
       ELSE IF IsRecord(draw.payload)
       THEN /\ outdir' = Write(outdir,
                               Pad4(dir_id) \o "-" \o slugify(Catalogue[pdf].stem)
                                   \o "-draw.json",
                               [record |-> draw.payload, source_pdf |-> PathOf(pdf),
                                source_directory_id |-> dir_id,
                                source_directory_name |-> directory.name])
            /\ log' = Append(log, Entry(pdf, "Wrote DRAW"))
            /\ skipped' = AfterPpt(directory)
            /\ pc' = pc
       ELSE /\ log' = Append(log, Entry(pdf, "Skipping DRAW: " \o error))
            /\ skipped' = Append(AfterPpt(directory),
                                 Skipped("DRAW", PathOf(pdf), error, dir_id, directory.name))
            /\ pc' = pc
            /\ outdir' = outdir

DrawParsedAs(directory, pdf, draw) ==
    DrawOutcome(directory, pdf, draw,
                IF draw.error = None THEN "Unknown failure" ELSE draw.error)

\* the first PDF of the directory, in the order of the names
ParseDraw(directory, pdf) ==
    DrawParsedAs(directory, pdf, parse_draw_file(Catalogue[pdf], order, installed))

ProcessDirectory ==
    /\ driver = "main"
    /\ pc = "loop"
    /\ idx < Len(directories)
    /\ WriteConop(DirTable[directories[idx + 1]])
    /\ ParseDraw(DirTable[directories[idx + 1]],
                 MinOf({d \in files : Catalogue[d].dir = directories[idx + 1]}))
    /\ idx' = idx + 1
    /\ dir_id' = dir_id + 1
    /\ UNCHANGED <<environment, order, runs, pdf_files, directories, success_count,
                   exit_code>>
    /\ report' = report

\* The end of main(): the report of the skipped documents (generated_at, the
\* wall clock, is left out)
WriteSkipReport ==
    /\ driver = "main"
    /\ pc = "loop"
    /\ idx = Len(directories)
    /\ pc' = "done"
    /\ IF dir_id = 1
       THEN /\ log' = Append(log, Entry(0, "No valid base directories processed."))
            /\ report' = report
       ELSE IF skipped # <<>>
       THEN /\ report' = <<[total_directories_processed |-> dir_id - 1,
                            skipped_count |-> Len(skipped),
                            skipped_documents |-> skipped]>>
            /\ log' = Append(log, Entry(0, "Skipped document report written"))
       ELSE /\ log' = Append(log, Entry(0, "All detected documents were parsed successfully."))
            /\ report' = report
    /\ UNCHANGED <<environment, order, runs, pdf_files, directories, idx, success_count,
                   dir_id, outdir, conops_outdir, skipped, results, exit_code>>

Next ==
    \/ RunProcessPdf
    \/ ListPdfFiles
    \/ ProcessNextPdf
    \/ PrintSummary
    \/ ListDirectories
    \/ ProcessDirectory
    \/ WriteSkipReport

Spec == Init /\ [][Next]_vars

\* A step of Next is possible: the guards of the seven actions
CanStep ==
    \/ driver = "process_pdf" /\ pc \in {"start", "done"} /\ runs < MaxRuns
    \/ driver \in {"batch_process", "main"} /\ pc \in {"start", "loop"}

\* Every step of Next moves pc, idx or runs, and Advance says no more than that
\* one of them moves from a state with CanStep
Advance ==
    /\ CanStep
    /\ pc' \in {"loop", "done"}
    /\ idx' \in {idx, idx + 1}
    /\ runs' \in {runs, runs + 1}

\* The drivers are processes that run to their end: a step that is possible is
\* taken.  Stated on <<pc, idx, runs>>, this is weak fairness of Next.
FairSpec == Spec /\ WF_<<pc, idx, runs>>(Advance)

(***************************************************************************)
(* Properties of the pipeline, stated on the history of the calls.         *)
(***************************************************************************)
Calls == 1..Len(results)

\* the record of the structured path for a document, with the libraries at hand
StructuredRecord(doc) ==
    parse_dd2977_xfa(extract_xfa_dataset_from_pdf(Catalogue[doc], installed))

TextBackends == {"extract_text_pymupdf", "extract_text_pdfminer", "extract_text_ocr"}

\* the backends among the calls of one outcome, in the order of the calls
BackendCalls(calls) == SelectSeq(calls, LAMBDA c : c \in TextBackends)

\* a raw backend output that the chain passes over
IsBlankOutput(raw) == raw = "" \/ Strip(raw) = ""

\* the placeholder page, recognised by its two phrases
ShowsPlaceholderPage(text) ==
    /\ text \notin {None, "<TesseractError>"}
    /\ Contains(text, "Please wait")
    /\ Contains(text, "Adobe Reader")

\* C1: in process_pdf and in parse_draw_file the structured path is the first
\* call; when it returns a record, that record is the result and it comes from
\* the dataset alone: no text backend and no parse_dd2977 is called, whatever
\* the text layers of the document hold.
C1_StructuredPathFirst ==
    \A k \in Calls :
        /\ Head(results[k].outcome.calls) = "parse_dd2977_xfa"
        /\ IsRecord(StructuredRecord(results[k].doc)) =>
              /\ results[k].outcome.calls = <<"parse_dd2977_xfa">>
              /\ results[k].outcome.text = None
              /\ results[k].outcome.ok
              /\ results[k].outcome.record = StructuredRecord(results[k].doc)

\* alpha/draw.pdf has a filled dataset and text layers of its own
C1_Witness ==
    \E k \in Calls :
        /\ results[k].doc = 1
        /\ Catalogue[1].layout.text = "garbled"
        /\ IsRecord(results[k].outcome.record)
        /\ results[k].outcome.record.mission_task_and_description = "Convoy to range"
        /\ results[k].outcome.calls = <<"parse_dd2977_xfa">>

\* C2: without forced OCR, a call of extract_text_multibackend that returns has
\* tried native, layout-aware, OCR in this order and stopped at the first
\* backend with a non-blank output: the transcript is the normalized output of
\* that backend alone, and it is "" exactly when all three outputs are blank.
C2_FirstUsableBackend ==
    \A k \in Calls :
        LET o == results[k].outcome
            pdf == Catalogue[results[k].doc]
            tried == BackendCalls(o.calls)
            n == Len(tried)
        IN  (~force_ocr /\ o.text \notin {None, "<TesseractError>"}) =>
              /\ n >= 1
              /\ tried = SubSeq(<<"extract_text_pymupdf", "extract_text_pdfminer",
                                  "extract_text_ocr">>, 1, n)
              /\ \A j \in 1..(n - 1) : IsBlankOutput(Backend(tried[j], pdf, installed))
              /\ IF IsBlankOutput(Backend(tried[n], pdf, installed))
                 THEN n = 3 /\ o.text = ""
                 ELSE o.text = normalize_text(Backend(tried[n], pdf, installed))
              /\ o.text = "" <=> \A fn \in TextBackends : IsBlankOutput(Backend(fn, pdf, installed))

\* bravo/report.pdf is read by OCR after two blank backends
C2_Witness ==
    /\ ~force_ocr
    /\ \E k \in Calls :
        /\ results[k].doc = 3
        /\ BackendCalls(results[k].outcome.calls) =
               <<"extract_text_pymupdf", "extract_text_pdfminer", "extract_text_ocr">>
        /\ results[k].outcome.text # ""
        /\ results[k].outcome.ok

\* C3: no exception leaves a text backend or extract_text_multibackend: the
\* transcript handed to the caller is always a string.
C3_BackendFailuresSwallowed ==
    \A k \in Calls : results[k].outcome.text # "<TesseractError>"

\* C4: when the transcript is the placeholder page, the document is refused with
\* the diagnostic of the missing library, which is not the diagnostic of an
\* empty transcript, and parse_dd2977 is not called.
C4_PlaceholderDiagnosed ==
    \A k \in Calls :
        ShowsPlaceholderPage(results[k].outcome.text) =>
            /\ ~results[k].outcome.ok
            /\ results[k].outcome.record = NoRecord
            /\ results[k].outcome.name = None
            /\ results[k].outcome.diag =
                   (IF driver = "main"
                    THEN "Detected XFA form but XFA dependencies are missing"
                    ELSE "Detected an XFA-based PDF")
            /\ results[k].outcome.diag \notin {"Failed to extract text", "Unable to extract text"}
            /\ ~InSeq("parse_dd2977", results[k].outcome.calls)
            /\ \E j \in 1..Len(log) :
                   /\ log[j].doc = results[k].doc
                   /\ Contains(log[j].msg, results[k].outcome.diag)

\* charlie/xform.pdf shows the placeholder page in its text layer
C4_Witness ==
    \E k \in Calls :
        /\ results[k].doc = 5
        /\ ShowsPlaceholderPage(results[k].outcome.text)
        /\ ~results[k].outcome.ok

\* a raw backend output with content a record can be parsed from
IsUsable(raw) == raw # "<TesseractError>" /\ ~IsBlankOutput(raw) /\ ~ShowsPlaceholderPage(raw)

\* C5: a document fails only when no path has anything: there is no dataset
\* payload and no text backend has usable content.
C5_FailureOnlyWithoutContent ==
    \A k \in Calls :
        (~force_ocr /\ ~results[k].outcome.ok) =>
            /\ extract_xfa_dataset_from_pdf(Catalogue[results[k].doc], installed) = PNone
            /\ \A fn \in TextBackends :
                   ~IsUsable(Backend(fn, Catalogue[results[k].doc], installed))

\* the documents a batch has to attempt: all the files for batch_process, the
\* first PDF of every directory for the directory driver
InputDocuments ==
    IF driver = "main"
    THEN {MinOf({d \in files : Catalogue[d].dir = g}) : g \in {Catalogue[d].dir : d \in files}}
    ELSE files

Attempts(doc) == Cardinality({k \in Calls : results[k].doc = doc})

Successes == Cardinality({k \in Calls : results[k].outcome.ok})

\* the failure of a call is on the log, and in the skipped list of the directory driver
FailureRecorded(k) ==
    /\ \E j \in 1..Len(log) :
           /\ log[j].doc = results[k].doc
           /\ Contains(log[j].msg, results[k].outcome.diag)
    /\ driver = "main" =>
           \E j \in 1..Len(skipped) :
               /\ skipped[j].type = "DRAW"
               /\ skipped[j].path = PathOf(results[k].doc)
               /\ skipped[j].reason = results[k].outcome.diag

\* what holds all along a batch: the loop is never left by an exception, the
\* documents attempted so far are the first idx input documents, each once,
\* with every failure recorded and every success counted
BatchSteady ==
    driver \in {"batch_process", "main"} =>
        /\ pc # "aborted"
        /\ Len(results) = idx
        /\ \A k \in Calls :
               /\ results[k].doc \in InputDocuments
               /\ Attempts(results[k].doc) = 1
               /\ ~results[k].outcome.ok => FailureRecorded(k)
        /\ driver = "batch_process" =>
               /\ success_count = Successes
               /\ \A k \in Calls : results[k].doc = pdf_files[k]
               /\ (pc = "done" /\ files # {}) =>
                      log[Len(log)].msg = "Successfully processed " \o NatToStr(Successes)
                                             \o "/" \o NatToStr(Cardinality(files))

\* the end of a batch: every input document has been attempted exactly once
BatchComplete ==
    /\ pc = "done"
    /\ \A d \in InputDocuments : Attempts(d) = 1

\* C6: a batch never aborts on a bad file: in batch_process and in the loop of
\* the directory driver every input document is eventually attempted, exactly
\* once, whatever failed before it; a failing document is logged (and put on
\* the skipped list), and the success count is the number of successes.
C6_BatchNeverAborts ==
    /\ []BatchSteady
    /\ (driver \in {"batch_process", "main"} /\ pc = "start") ~> BatchComplete

\* a batch of two in which the first document fails and the second succeeds
C6_Witness ==
    /\ driver = "batch_process"
    /\ pc = "done"
    /\ Len(results) = 2
    /\ ~results[1].outcome.ok
    /\ results[2].outcome.ok
    /\ success_count = 1

\* the output directory after the calls of a batch, made in the given order
RECURSIVE StoredAll(_, _)
StoredAll(outcomes, dir) ==
    IF outcomes = <<>> THEN dir
    ELSE StoredAll(Tail(outcomes), Stored(dir, Head(outcomes)))

\* C7: the output directory after batch_process (the file names and the record
\* under each name) is the same for every order of the documents, also when
\* two documents derive the same {date}-{slug}.
C7_OrderIndependent ==
    (driver = "batch_process" /\ pc = "done") =>
        \A q \in Perms(Calls) :
            StoredAll([k \in Calls |-> results[q[k]].outcome], {}) = outdir

\* C8: the outcome of a document is a function of the document: two calls on
\* the same document give the same outcome, and the rows extract_subtask_rows
\* returns are the same for every iteration order of the hazard vocabulary.
C8_Deterministic ==
    /\ \A i, j \in Calls :
           results[i].doc = results[j].doc => results[i].outcome = results[j].outcome
    /\ \A k \in Calls :
           InSeq("parse_dd2977", results[k].outcome.calls) =>
               \A o \in HashOrders :
                   extract_subtask_rows(results[k].outcome.text, o)
                       = results[k].outcome.record.subtasks

\* alpha/report.pdf parsed twice, under two iteration orders of the vocabulary
C8_Witness ==
    \E i, j \in Calls :
        /\ results[i].doc = 2
        /\ results[j].doc = 2
        /\ results[i].order # results[j].order
        /\ IsRecord(results[i].outcome.record)
        /\ Len(results[i].outcome.record.subtasks) = 3
        /\ results[i].outcome.record.subtasks[3].hazard = "Severe heat injury Dehydration"

\* the names written in the rows of the dataset of a document
WrittenXfaNames(doc) ==
    LET page1 == Get(Get(extract_xfa_dataset_from_pdf(Catalogue[doc], installed), "form1"),
                     "Page1")
        rows == SelectSeq(RowsOfSection(Get(page1, "Part4thru9")), IsDict)
    IN  [i \in 1..Len(rows) |-> XfaRow(rows[i]).name]

\* the names the rows of a transcript have when each row is read on its own
WrittenTextNames(text, o) ==
    LET read == SelectSeq([i \in 1..Len(RowMatches(DataSection(text))) |->
                              ParseRow(RowMatches(DataSection(text))[i], None, o)],
                          LAMBDA r : ~r.skip)
    IN  [i \in 1..Len(read) |-> read[i].row.name]

SubtaskNames(record) == [i \in 1..Len(record.subtasks) |-> record.subtasks[i].name]

\* a row without a name of its own carries the name of the row before it, which
\* is the most recent name; without one it keeps its null
Inherits(names, written) ==
    /\ Len(names) = Len(written)
    /\ \A i \in 1..Len(names) :
           ~Nonempty(written[i]) =>
               names[i] = (IF i > 1 /\ Nonempty(names[i - 1]) THEN names[i - 1]
                           ELSE written[i])

\* C9: in the records of both paths a row without a name of its own carries
\* the most recent name of an earlier row, and keeps its null when there is
\* none; in the dataset mapper a row with a name keeps it.
C9_NameInheritance ==
    \A k \in Calls :
        IsRecord(results[k].outcome.record) =>
            IF results[k].outcome.text = None
            THEN /\ Inherits(SubtaskNames(results[k].outcome.record),
                             WrittenXfaNames(results[k].doc))
                 /\ \A i \in 1..Len(results[k].outcome.record.subtasks) :
                        Nonempty(WrittenXfaNames(results[k].doc)[i]) =>
                            results[k].outcome.record.subtasks[i].name
                                = WrittenXfaNames(results[k].doc)[i]
            ELSE results[k].outcome.record.subtasks # <<>> =>
                     Inherits(SubtaskNames(results[k].outcome.record),
                              WrittenTextNames(results[k].outcome.text, results[k].order))

\* three rows of which only the first has a name: the dataset of alpha/draw.pdf
\* and the text layer of alpha/report.pdf, in one batch
C9_Witness ==
    \E i, j \in Calls :
        /\ results[i].doc = 1
        /\ IsRecord(results[i].outcome.record)
        /\ IsRecord(results[j].outcome.record)
        /\ results[i].outcome.text = None
        /\ WrittenXfaNames(1) = <<"Move", None, None>>
        /\ SubtaskNames(results[i].outcome.record) = <<"Move", "Move", "Move">>
        /\ results[j].doc = 2
        /\ WrittenTextNames(results[j].outcome.text, results[j].order) = <<"RANGE", None, None>>
        /\ SubtaskNames(results[j].outcome.record) = <<"RANGE", "RANGE", "RANGE">>

\* a risk field the Risk Normalizer leaves as it is: null, a canonical code, or
\* the trimmed text of a value it does not know
IsNormalized(level) ==
    level = None \/ RiskLevelOf(Strip(level), Upper(Strip(level))) = level

\* C10: every risk field of a record of either path is null, a canonical code
\* or the trimmed text of a value the normalizer does not know: a severity word
\* or a legacy number 0-3 never appears as written.
C10_RiskFieldsNormalized ==
    \A k \in Calls :
        IsRecord(results[k].outcome.record) =>
            /\ IsNormalized(results[k].outcome.record.overall_residual_risk_level)
            /\ \A i \in 1..Len(results[k].outcome.record.subtasks) :
                   /\ IsNormalized(results[k].outcome.record.subtasks[i].initial_risk_level)
                   /\ IsNormalized(results[k].outcome.record.subtasks[i].residual_risk_level)

(***************************************************************************)
(* The functions of the program, called one at a time.  A behaviour of      *)
(* FunctionSpec is one call: call holds the function and its arguments,     *)
(* drawn from the bounded sets below, and returned what the call returned.  *)
(***************************************************************************)
\* w with its letters in upper and lower case in turn
Alternating(w) ==
    Concat([i \in 1..Len(w) |-> IF i % 2 = 1 THEN UpperCh(Ch(w, i)) ELSE LowerCh(Ch(w, i))])

CaseForms(w) == {w, Upper(w), Lower(w), Alternating(w)}

Paddings == {"", " ", "\t ", "\n"}

RiskWords ==
    {"Extremely High", "Very High", "High", "Medium", "Med", "Low", "Moderate",
     "Negligible", "0", "1", "2", "3", "EH", "H", "M", "L"}

UnknownWords == {"purple", "4", "Severe", "1.0", "01", "Hi gh", "Extremely  High", "X"}

\* the raw values handed to the Risk Normalizer: None is a missing value
RiskInputs ==
    {None, "", " ", "\n\t"}
        \cup {pre \o form \o post : pre \in Paddings, post \in Paddings,
              form \in UNION {CaseForms(w) : w \in RiskWords \cup UnknownWords}}

NormalizeCalls == {[fn |-> "_normalize_risk_level", raw |-> raw] : raw \in RiskInputs}

AsValue(raw) == IF raw = None THEN PNone ELSE PStr(raw)

CallNormalizeRiskLevel ==
    /\ call.fn = "_normalize_risk_level"
    /\ returned = Pending
    /\ returned' = <<_normalize_risk_level(AsValue(call.raw))>>
    /\ UNCHANGED <<driver, force_ocr, installed, files, order, pc, runs, pdf_files,
                   directories, idx, success_count, dir_id, outdir, conops_outdir, log,
                   skipped, results, exit_code, report, call>>

\* C11: _normalize_risk_level maps the sixteen known values, in any letter case
\* and with white space around them, by its table into {EH, H, M, L}; every
\* other non-empty value comes back trimmed and otherwise unchanged; an empty or
\* missing value gives null.
C11_NormalizerTable ==
    (call.fn = "_normalize_risk_level" /\ returned # Pending) =>
        IF call.raw = None \/ Strip(call.raw) = "" THEN Result = None
        ELSE IF Upper(Strip(call.raw)) \in {"EXTREMELY HIGH", "3", "EH"} THEN Result = "EH"
        ELSE IF Upper(Strip(call.raw)) \in {"VERY HIGH", "HIGH", "2", "H"} THEN Result = "H"
        ELSE IF Upper(Strip(call.raw)) \in {"MEDIUM", "MED", "MODERATE", "1", "M"}
        THEN Result = "M"
        ELSE IF Upper(Strip(call.raw)) \in {"LOW", "NEGLIGIBLE", "0", "L"} THEN Result = "L"
        ELSE Result = Strip(call.raw)

\* "vErY HiGh" between white space comes back as H
C11_Witness ==
    /\ call.fn = "_normalize_risk_level"
    /\ call.raw = "\t VeRy hIgH\n"
    /\ returned # Pending
    /\ Result = "H"

\* the residual values the two paths hand to calculate_overall_risk: results of
\* the normalizer (null, a canonical code, a trimmed unknown text) and risk tokens
ResidualValues == {None, "L", "M", "H", "EH", "purple", "5", "12", "2.5", "nan"}

\* the longest list of residual values
MaxResiduals == 3

ResidualLists == UNION {[1..n -> ResidualValues] : n \in 0..MaxResiduals}

AggregateCalls ==
    {[fn |-> "calculate_overall_risk", residual_risks |-> rs] : rs \in ResidualLists}

CallCalculateOverallRisk ==
    /\ call.fn = "calculate_overall_risk"
    /\ returned = Pending
    /\ returned' = <<calculate_overall_risk(call.residual_risks)>>
    /\ UNCHANGED <<driver, force_ocr, installed, files, order, pc, runs, pdf_files,
                   directories, idx, success_count, dir_id, outdir, conops_outdir, log,
                   skipped, results, exit_code, report, call>>

SeverityRank == [c \in {"EH", "H", "M", "L"} |->
                    CASE c = "EH" -> 4 [] c = "H" -> 3 [] c = "M" -> 2 [] OTHER -> 1]

\* the canonical codes among the elements of a list
CanonicalAmong(rs) == {rs[i] : i \in 1..Len(rs)} \cap {"EH", "H", "M", "L"}

\* C12: for a list with a canonical code among its elements, the aggregate is
\* the canonical element of the largest severity under EH > H > M > L, whatever
\* the nulls, the other elements and the order of the list.
C12_AggregateLaw ==
    (/\ call.fn = "calculate_overall_risk"
     /\ returned # Pending
     /\ CanonicalAmong(call.residual_risks) # {}) =>
        /\ Result \in CanonicalAmong(call.residual_risks)
        /\ \A c \in CanonicalAmong(call.residual_risks) : SeverityRank[c] <= SeverityRank[Result]

\* ["L", "H", "M"] gives "H"
C12_Witness ==
    /\ call.fn = "calculate_overall_risk"
    /\ call.residual_risks = <<"L", "H", "M">>
    /\ returned # Pending
    /\ Result = "H"

\* a text that reads as a plain number: digits with an optional fraction
IsPlainNumber(r) ==
    /\ r # None
    /\ r # ""
    /\ \A i \in 1..Len(r) : Ch(r, i) \in Digits \cup {"."}
    /\ \E i \in 1..Len(r) : Ch(r, i) \in Digits

\* C13: for a list without a canonical code, the aggregate is the largest value,
\* as a string, when all the values are plain numbers, and null otherwise (for
\* the empty list and for a list that mixes numbers and other values); the call
\* never raises.
C13_NumericAggregate ==
    (/\ call.fn = "calculate_overall_risk"
     /\ returned # Pending
     /\ CanonicalAmong(call.residual_risks) = {}) =>
        /\ ~IsRaise(Result)
        /\ IF /\ call.residual_risks # <<>>
              /\ \A i \in 1..Len(call.residual_risks) : IsPlainNumber(call.residual_risks[i])
           THEN /\ \E i \in 1..Len(call.residual_risks) : Result = call.residual_risks[i]
                /\ \A i \in 1..Len(call.residual_risks) :
                       ~FloatGt(ParseFloat(call.residual_risks[i]), ParseFloat(Result))
           ELSE Result = None

(***************************************************************************)
(* Calls of the structured mapper.  The dataset of a call is absent, or an  *)
(* XML tree: a container shape that is not a form, or a page with a Ten     *)
(* block (check-box leaves EHigh, High, Med, Low), rows and a Twelve block  *)
(* (leaves Approve, Disapprove).                                           *)
(***************************************************************************)
NoLeaf == "<no leaf>"

MarkedValues == {"1", " X ", "TRUE", "Yes", "on", "Checked"}
UnmarkedValues == {"0", "", "no", "2", "off", "x x"}
LeafValues == {NoLeaf} \cup MarkedValues \cup UnmarkedValues

LeafSeq(tag, v) == IF v = NoLeaf THEN <<>> ELSE <<Leaf(tag, v)>>
Block(tag, kids) == IF kids = <<>> THEN <<>> ELSE <<Elem(tag, None, kids)>>

TenBlocks ==
    {LeafSeq("EHigh", e) \o LeafSeq("High", h) \o LeafSeq("Med", m) \o LeafSeq("Low", l) :
        e \in {NoLeaf, "0", "1"}, h \in {NoLeaf, "no", " X "}, m \in LeafValues,
        l \in {NoLeaf, "Yes"}}

TwelveBlocks ==
    {LeafSeq("Approve", a) \o LeafSeq("Disapprove", d) :
        a \in {NoLeaf, "0", "1", " X ", "no"}, d \in {NoLeaf, "0", "1", "Yes", "off"}}

RowBlocks ==
    {<<>>,
     <<Elem("Row1", None, <<Leaf("Subtask", "Move"), Leaf("RRL", "Medium")>>),
       Elem("Row2", None, <<Leaf("Hazard", "Heat"), Leaf("RRL", "Low")>>)>>,
     <<Elem("Row1", None, <<Leaf("Subtask", "Fire"), Leaf("RRL", "Extremely High")>>),
       Elem("Row2", None, <<Leaf("Hazard", "Dust"), Leaf("RRL", "purple")>>)>>,
     <<Elem("Row1", None, <<Leaf("Subtask", "Drive"), Leaf("RRL", "nan")>>)>>}

PageDataset(ten, rows, twelve) ==
    Elem("data", None, <<Elem("form1", None, <<Elem("Page1", None,
        <<Leaf("One", "Convoy")>> \o Block("Part4thru9", rows) \o Block("Ten", ten)
            \o Block("Twelve", twelve))>>)>>)

\* datasets whose form container or page container is missing or is not a mapping
NoFormDataset == Elem("data", None, <<Leaf("other", "1")>>)
EmptyFormDataset == Elem("data", None, <<Leaf("form1", None)>>)
TextFormDataset == Elem("data", None, <<Leaf("form1", "txt")>>)
NoPageDataset == Elem("data", None, <<Elem("form1", None, <<Leaf("Other", "1")>>)>>)
EmptyPageDataset == Elem("data", None, <<Elem("form1", None, <<Leaf("Page1", None)>>)>>)
TextPageDataset == Elem("data", None, <<Elem("form1", None, <<Leaf("Page1", "x")>>)>>)
ListPageDataset ==
    Elem("data", None, <<Elem("form1", None, <<Leaf("Page1", "x"), Leaf("Page1", "y")>>)>>)

ShapeDatasets ==
    {NoData, NoFormDataset, EmptyFormDataset, TextFormDataset, NoPageDataset,
     EmptyPageDataset, TextPageDataset, ListPageDataset}

\* a call carries the blocks its dataset was written from
XfaCall(present, data, ten, rows, twelve) ==
    [fn |-> "parse_dd2977_xfa", present |-> present, data |-> data, ten |-> ten,
     rows |-> rows, twelve |-> twelve]

PageCall(ten, rows, twelve) == XfaCall(TRUE, PageDataset(ten, rows, twelve), ten, rows, twelve)

\* present is FALSE when the file carries no dataset at all
XfaCalls ==
    {PageCall(ten, rows, <<>>) : ten \in TenBlocks, rows \in RowBlocks}
        \cup {PageCall(<<>>, rows, twelve) : rows \in RowBlocks, twelve \in TwelveBlocks}
        \cup {XfaCall(TRUE, d, <<>>, <<>>, <<>>) : d \in ShapeDatasets}
        \cup {XfaCall(FALSE, NoData, <<>>, <<>>, <<>>)}

\* what extract_xfa_dataset_from_pdf hands to the mapper
DatasetPayload(c) == IF c.present THEN _xml_node_to_obj(c.data) ELSE PNone

CallParseDd2977Xfa ==
    /\ call.fn = "parse_dd2977_xfa"
    /\ returned = Pending
    /\ returned' = <<parse_dd2977_xfa(DatasetPayload(call))>>
    /\ UNCHANGED <<driver, force_ocr, installed, files, order, pc, runs, pdf_files,
                   directories, idx, success_count, dir_id, outdir, conops_outdir, log,
                   skipped, results, exit_code, report, call>>

(***************************************************************************)
(* Calls of the text parser.  The text of a call is written from parts:    *)
(* the rows of sections 4 to 9, section 10, section 11, and section 12     *)
(* with its heading, its two check boxes, a signature line and a remark.   *)
(***************************************************************************)
RowsParts ==
    {"",
     "9. RESIDUAL RISK LEVEL\n+\n-\nRANGE\nFire injury\nH\n- Brief all\nM\n+\n-\nEH\n- Shade\nH\n",
     "9. RESIDUAL RISK LEVEL\n+\n-\nConvoy\nRollover risk\nM\n- Belts\nL\n"}

OverallParts ==
    {"",
     "10. OVERALL RESIDUAL RISK LEVEL: HIGH\n",
     "10. OVERALL RESIDUAL RISK LEVEL:\nLOW X\nHIGH\n",
     "10. OVERALL RESIDUAL RISK LEVEL:\nEXTREMELY HIGH\nHIGH\nMEDIUM\nLOW\n"}

\* the parts of section 10 that select no level
UnselectedParts == {"", "10. OVERALL RESIDUAL RISK LEVEL:\nEXTREMELY HIGH\nHIGH\nMEDIUM\nLOW\n"}

PlanParts ==
    {"",
     "11. OVERALL SUPERVISION PLAN: Leaders on site.\n",
     "11. OVERALL SUPERVISION PLAN: The overall residual risk is low.\n"}

HeadParts == {"", "12. APPROVAL OR DISAPPROVAL\n", "12. APPROVAL OR\nDISAPPROVAL\n"}

\* what is written after the label of a check box; NoLeaf: the bare label
BoxMarks == {NoLeaf, "0", "X", "1"}

RemarkParts == {"", "Mission not approved\n", "DISAPPROVED\n"}

BoxLine(label, mark) == IF mark = NoLeaf THEN label \o "\n" ELSE label \o ": " \o mark \o "\n"

SignatureLine(signed) == IF signed THEN "Digitally signed by SMITH.JOHN\n" ELSE ""

NoApproval ==
    [head |-> "", approve |-> NoLeaf, disapprove |-> NoLeaf, signed |-> FALSE, words |-> ""]

ApprovalParts ==
    [head : HeadParts, approve : BoxMarks, disapprove : BoxMarks, signed : BOOLEAN,
     words : RemarkParts]

ApprovalText(a) ==
    IF a = NoApproval THEN ""
    ELSE a.head \o BoxLine("APPROVE", a.approve) \o BoxLine("DISAPPROVE", a.disapprove)
             \o SignatureLine(a.signed) \o a.words

\* texts that are no form: fragments of headings, rows without content or end
MalformedTexts ==
    {"\n\n", ")(*&^%$#@!", "9. RESIDUAL RISK LEVEL", "9. RESIDUAL RISK LEVEL\n+\n-\n",
     "9. RESIDUAL RISK LEVEL\n+\n-\n5\n5\n+\n-\nE\nHM\n+\n-\n+\n-\nHow:\nWho:",
     "+\n-\nH\nM", "10. OVERALL RESIDUAL RISK LEVEL:", "11. OVERALL SUPERVISION PLAN",
     "3. PREPARED BY\na. \nb.\n12.", "1. MISSION/TASK\n2. DATE PREPARED\n3. PREPARED"}

TextCall(rows, overall, plan, approval, o) ==
    [fn |-> "parse_dd2977", rows |-> rows, overall |-> overall, plan |-> plan,
     approval |-> approval, order |-> o]

TextCalls ==
    {TextCall(rows, overall, plan, NoApproval, o) :
        rows \in RowsParts, overall \in OverallParts, plan \in PlanParts, o \in HashOrders}
        \cup {TextCall("", "", "", a, COMMON_HAZARD_PREFIXES) : a \in ApprovalParts}
        \cup {TextCall(t, "", "", NoApproval, COMMON_HAZARD_PREFIXES) : t \in MalformedTexts}

FormText(c) == c.rows \o c.overall \o c.plan \o ApprovalText(c.approval)

CallParseDd2977 ==
    /\ call.fn = "parse_dd2977"
    /\ returned = Pending
    /\ returned' = <<parse_dd2977(FormText(call), call.order)>>
    /\ UNCHANGED <<driver, force_ocr, installed, files, order, pc, runs, pdf_files,
                   directories, idx, success_count, dir_id, outdir, conops_outdir, log,
                   skipped, results, exit_code, report, call>>

\* the document of the call carries no explicit marked overall value
NoExplicitOverall ==
    \/ /\ call.fn = "parse_dd2977_xfa"
       /\ \A i \in 1..Len(call.ten) : call.ten[i].text \notin MarkedValues
    \/ /\ call.fn = "parse_dd2977"
       /\ call.overall \in UnselectedParts

\* C14: in a record of either path whose document carries no explicit marked
\* overall value, overall_residual_risk_level is the most severe residual risk
\* level among the record's subtasks (EH over H over M over L), whatever the
\* other fields of the document hold.
C14_OverallIsMaximum ==
    (/\ call.fn \in {"parse_dd2977_xfa", "parse_dd2977"}
     /\ returned # Pending
     /\ IsRecord(Result)
     /\ NoExplicitOverall
     /\ CanonicalAmong(ResidualsOf(Result.subtasks)) # {}) =>
        /\ Result.overall_residual_risk_level \in CanonicalAmong(ResidualsOf(Result.subtasks))
        /\ \A c \in CanonicalAmong(ResidualsOf(Result.subtasks)) :
               SeverityRank[c] <= SeverityRank[Result.overall_residual_risk_level]

\* the explicit check box of the call's document is marked: tag is the leaf of
\* the Twelve block, mark what the text carries after the label
BoxMarked(tag, mark) ==
    IF call.fn = "parse_dd2977_xfa"
    THEN \E i \in 1..Len(call.twelve) :
             call.twelve[i].tag = tag /\ call.twelve[i].text \in MarkedValues
    ELSE mark \in {"X", "1"}

ApproveMarked ==
    BoxMarked("Approve", IF call.fn = "parse_dd2977" THEN call.approval.approve ELSE NoLeaf)

DisapproveMarked ==
    BoxMarked("Disapprove",
              IF call.fn = "parse_dd2977" THEN call.approval.disapprove ELSE NoLeaf)

\* C15: approve and disapprove are flags in {0, 1}; on both paths, when at
\* least one of the two explicit check boxes is marked, each flag is 1 exactly
\* when its own check box is marked: both marked gives approve = 1 and
\* disapprove = 1, and neither flag depends on the other.
C15_IndependentFlags ==
    (/\ call.fn \in {"parse_dd2977_xfa", "parse_dd2977"}
     /\ returned # Pending
     /\ IsRecord(Result)) =>
        /\ Result.approve \in {0, 1}
        /\ Result.disapprove \in {0, 1}
        /\ (ApproveMarked \/ DisapproveMarked) =>
               /\ (Result.approve = 1) <=> ApproveMarked
               /\ (Result.disapprove = 1) <=> DisapproveMarked

\* a text with both check boxes marked under a signed section 12 gives 1 and 1
C15_Witness ==
    /\ call.fn = "parse_dd2977"
    /\ returned # Pending
    /\ call.approval.approve = "X"
    /\ call.approval.disapprove = "1"
    /\ call.approval.signed
    /\ Result.approve = 1
    /\ Result.disapprove = 1

\* section 12 of the call's text is found and its body carries the signature
\* marker; it is found and its body carries disapproval vocabulary
BodySigned == call.approval.head # "" /\ call.approval.signed
BodyDisapproves == call.approval.head # "" /\ call.approval.words # ""

\* C16: in parse_dd2977, when neither explicit check box is set, the flags
\* follow from the body of the approval section alone: a signature marker and
\* no disapproval vocabulary give approve = 1, disapprove = 0; disapproval
\* vocabulary and no signature marker give approve = 0, disapprove = 1; both,
\* neither, or no approval section give 0 and 0.
C16_ApprovalInference ==
    (/\ call.fn = "parse_dd2977"
     /\ returned # Pending
     /\ IsRecord(Result)
     /\ ~ApproveMarked
     /\ ~DisapproveMarked) =>
        /\ Result.approve = (IF BodySigned /\ ~BodyDisapproves THEN 1 ELSE 0)
        /\ Result.disapprove = (IF BodyDisapproves /\ ~BodySigned THEN 1 ELSE 0)

\* C17: parse_dd2977_xfa returns no record whenever the dataset is absent or
\* its form container, or the page container under it, is missing or is not
\* a mapping.
C17_ShapeMismatchNoRecord ==
    (/\ call.fn = "parse_dd2977_xfa"
     /\ returned # Pending
     /\ ~call.present \/ call.data \in ShapeDatasets) =>
        Result = NoRecord

\* the leaf tag of the call's Ten block carries a marked value
LeafMarked(tag) ==
    \E i \in 1..Len(call.ten) : call.ten[i].tag = tag /\ call.ten[i].text \in MarkedValues

\* C18: the structured mapper takes the overall residual risk from the first
\* marked leaf among EHigh, High, Med, Low in that order, a leaf being marked
\* exactly when its trimmed value is, in any case, one of 1, x, true, yes, on,
\* checked; with no marked leaf the value is the aggregate over the residual
\* levels of the subtasks.
C18_FirstMarkedLeaf ==
    (/\ call.fn = "parse_dd2977_xfa"
     /\ returned # Pending
     /\ call.present
     /\ call.data \notin ShapeDatasets) =>
        IF LeafMarked("EHigh") THEN IsRecord(Result) /\ Result.overall_residual_risk_level = "EH"
        ELSE IF LeafMarked("High")
        THEN IsRecord(Result) /\ Result.overall_residual_risk_level = "H"
        ELSE IF LeafMarked("Med")
        THEN IsRecord(Result) /\ Result.overall_residual_risk_level = "M"
        ELSE IF LeafMarked("Low")
        THEN IsRecord(Result) /\ Result.overall_residual_risk_level = "L"
        ELSE IsRecord(Result) =>
                 Result.overall_residual_risk_level =
                     calculate_overall_risk(ResidualsOf(Result.subtasks))

\* High, Med and Low marked over rows whose worst residual is EH: the value is H
C18_Witness ==
    /\ call.fn = "parse_dd2977_xfa"
    /\ returned # Pending
    /\ call.ten = <<Leaf("EHigh", "0"), Leaf("High", " X "), Leaf("Med", "Checked"),
                    Leaf("Low", "Yes")>>
    /\ Len(call.rows) = 2
    /\ call.rows[1].kids[2].text = "Extremely High"
    /\ IsRecord(Result)
    /\ Result.overall_residual_risk_level = "H"

(***************************************************************************)
(* Calls of build_outpath.  The stem of the file is written from a prefix,  *)
(* a run of digits and a suffix; the date field of the record comes with    *)
(* the date it means (None when it means none); st_mtime with its date.     *)
(***************************************************************************)
StemPrefixes == {"", "draw-", "draw_", "Draw "}
StemTokens == {"", "20240506", "99999999", "2024050", "202405061"}
StemSuffixes == {"", "-v2"}

\* the runs of digits above that are a date written year first
DateTokens == {"20240506"}

DateFields ==
    {[text |-> None, means |-> None],
     [text |-> "", means |-> None],
     [text |-> "May 2024", means |-> None],
     [text |-> "2024-05-07", means |-> "20240507"],
     [text |-> "06/08/2024", means |-> "20240608"],
     [text |-> "9 May 2024", means |-> "20240509"],
     [text |-> "Prepared 2024.05.10 rev", means |-> "20240510"]}

ModifiedTimes ==
    {[st_mtime |-> 1709251200, means |-> "20240301"],
     [st_mtime |-> 1704067200, means |-> "20240101"]}

OutpathCalls ==
    {[fn |-> "build_outpath", prefix |-> pre, token |-> tok, suffix |-> suf, date |-> d,
      modified |-> m] :
        pre \in StemPrefixes, tok \in StemTokens, suf \in StemSuffixes, d \in DateFields,
        m \in ModifiedTimes}

Stem(c) == c.prefix \o c.token \o c.suffix

CallBuildOutpath ==
    /\ call.fn = "build_outpath"
    /\ returned = Pending
    /\ returned' = <<build_outpath(Stem(call), call.modified.st_mtime,
                                   [get_dd2977_template EXCEPT !.date = call.date.text])>>
    /\ UNCHANGED <<driver, force_ocr, installed, files, order, pc, runs, pdf_files,
                   directories, idx, success_count, dir_id, outdir, conops_outdir, log,
                   skipped, results, exit_code, report, call>>

\* the date of the first source that yields one: the date token of the file
\* name, the date the record's date field means, the last-modified date
FirstDate(c) ==
    IF c.token \in DateTokens THEN c.token
    ELSE IF c.date.means # None THEN c.date.means
    ELSE c.modified.means

\* C19: build_outpath names the file {date}-{slug}.json, where date comes from
\* the first source that yields a value: an 8-digit date token, year first, in
\* the file name; the record's date field normalized by the list of formats,
\* else by the digit scan; the last-modified date of the file.
C19_DatePriority ==
    (call.fn = "build_outpath" /\ returned # Pending) =>
        Result = FirstDate(call) \o "-" \o slugify(Stem(call)) \o ".json"

(***************************************************************************)
(* The per-line loop of extract_subtask_rows, one iteration per step.  A   *)
(* call carries the lines of one row (stripped, none empty); idx is the     *)
(* loop index i, pc the position (start, loop, done) and returned holds     *)
(* the loop state.                                                          *)
(***************************************************************************)
MaxLines == 4

RowLineTexts ==
    {"Convoy", "H", "EH", "MHLE", "5", "7", "- Belts", "How: brief", "Who: OIC"}

LineLoopCalls ==
    {[fn |-> "extract_subtask_rows", lines |-> ls] :
        ls \in UNION {[1..n -> RowLineTexts] : n \in 1..MaxLines}}

\* A loop that moves on by two lines.
SkipLine(i) == i + 2

\* i += 1
NextLine(i) == i + 1

\* the initialisation before the loop
EnterLineLoop ==
    /\ call.fn = "extract_subtask_rows"
    /\ pc = "start"
    /\ pc' = "loop"
    /\ idx' = 0
    /\ returned' = <<LineState0>>
    /\ UNCHANGED <<driver, force_ocr, installed, files, order, runs, pdf_files,
                   directories, success_count, dir_id, outdir, conops_outdir, log,
                   skipped, results, exit_code, report, call>>

\* the loop state after the body has run on line, and whether i moves on
LineLoopBody(st, line) == IF line = "" THEN st ELSE LineStep(st, line)

\* one iteration: lines[i] is examined; a second risk code breaks out of the loop
LineLoopIteration ==
    /\ call.fn = "extract_subtask_rows"
    /\ pc = "loop"
    /\ idx < Len(call.lines)
    /\ returned' = <<LineLoopBody(Result, Strip(call.lines[idx + 1]))>>
    /\ IF LineLoopBody(Result, Strip(call.lines[idx + 1])).broke
       THEN pc' = "done" /\ idx' = idx
       ELSE pc' = "loop" /\ idx' = NextLine(idx)
    /\ UNCHANGED <<driver, force_ocr, installed, files, order, runs, pdf_files,
                   directories, success_count, dir_id, outdir, conops_outdir, log,
                   skipped, results, exit_code, report, call>>

\* while i < len(lines) is false
LineLoopExit ==
    /\ call.fn = "extract_subtask_rows"
    /\ pc = "loop"
    /\ idx >= Len(call.lines)
    /\ pc' = "done"
    /\ UNCHANGED <<driver, force_ocr, installed, files, order, runs, pdf_files,
                   directories, idx, success_count, dir_id, outdir, conops_outdir, log,
                   skipped, results, exit_code, report, call, returned>>

\* after the loop: the row is populated from the loop state (a first row, no
\* subtask name carried into it)
PopulateRow ==
    /\ call.fn = "extract_subtask_rows"
    /\ pc = "done"
    /\ pc' = "row"
    /\ returned' = <<RowOfState(Result, None, COMMON_HAZARD_PREFIXES).row>>
    /\ UNCHANGED <<driver, force_ocr, installed, files, order, runs, pdf_files,
                   directories, idx, success_count, dir_id, outdir, conops_outdir, log,
                   skipped, results, exit_code, report, call>>

\* a completed call of parse_dd2977 returned a record with every field of the
\* schema; the empty text leaves every field null and the list empty
ParseTotal ==
    (call.fn = "parse_dd2977" /\ returned # Pending) =>
        /\ IsRecord(Result)
        /\ DOMAIN Result = DOMAIN get_dd2977_template
        /\ Len(Result.prepared_by) = Len(PreparedByKeys)
        /\ Len(PreparedByKeys) = 9
        /\ \A i \in 1..Len(Result.subtasks) :
               DOMAIN Result.subtasks[i] = DOMAIN get_subtask_template
        /\ Result.approve \in {0, 1}
        /\ Result.disapprove \in {0, 1}
        /\ FormText(call) = "" => Result = get_dd2977_template

\* a step of the loop moves to the next line or ends the loop
LoopAdvances ==
    (call.fn = "extract_subtask_rows" /\ pc = "loop") =>
        \/ pc' = "loop" /\ idx' = idx + 1
        \/ pc' = "done" /\ idx' = idx

\* the loop, when it has ended, holds what the parser takes as the row's state
LoopResult ==
    (call.fn = "extract_subtask_rows" /\ pc = "done") =>
        Result = LineLoop(call.lines, 1, LineState0)

\* the loop has ended: pc is past it
LoopEnded == pc \in {"done", "row"}

\* C20: parse_dd2977 is total: for every text it returns a record with every
\* field of the schema (nine prepared-by fields, the subtasks list, the two
\* approval flags) and never raises, a search without a match leaving its
\* field null or its list empty; the per-line loop of extract_subtask_rows
\* ends for every row and examines each line at most once.
C20_ParserTotal ==
    /\ []ParseTotal
    /\ [][LoopAdvances]_vars
    /\ []LoopResult
    /\ (call.fn = "extract_subtask_rows") ~> LoopEnded

\* the row Convoy / H / 5 / - Belts: the loop breaks at the second risk code,
\* on its third line, and the fourth line is not examined
C20_Witness ==
    /\ call.fn = "extract_subtask_rows"
    /\ call.lines = <<"Convoy", "H", "5", "- Belts">>
    /\ pc = "done"
    /\ idx = 2
    /\ Result.residual_risk = "5"
    /\ Result.controls_lines = <<>>

(***************************************************************************)
(* The rules of the line loop, stated on the lines of RowLineTexts.        *)
(***************************************************************************)
\* the lines of RowLineTexts that are risk codes
CodeLines == {"H", "EH", "5"}

LoopSections == {"subtask", "controls", "how", "who"}

ListOf(st, section) ==
    CASE section = "subtask" -> st.subtask_lines
      [] section = "controls" -> st.controls_lines
      [] section = "how" -> st.how_lines
      [] section = "who" -> st.who_lines

\* su holds the lists of st, but for those of sections
SameLists(st, su, sections) ==
    \A sec \in LoopSections \ sections : ListOf(su, sec) = ListOf(st, sec)

SameRisks(st, su) ==
    /\ su.initial_risk = st.initial_risk
    /\ su.residual_risk = st.residual_risk
    /\ su.found_first_risk = st.found_first_risk
    /\ su.broke = st.broke

\* su is st after the first rule that matches line
FirstRule(st, line, su) ==
    IF line \in CodeLines
    THEN /\ SameLists(st, su, {})
         /\ IF ~st.found_first_risk
            THEN /\ su.initial_risk = line
                 /\ su.residual_risk = st.residual_risk
                 /\ su.found_first_risk
                 /\ su.current_section = "controls"
                 /\ ~su.broke
            ELSE /\ su.initial_risk = st.initial_risk
                 /\ su.residual_risk = line
                 /\ su.found_first_risk
                 /\ su.current_section = st.current_section
                 /\ su.broke
    ELSE IF line = "How: brief"
    THEN /\ su.current_section = "how"
         /\ su.how_lines = Append(st.how_lines, "brief")
         /\ SameLists(st, su, {"how"})
         /\ SameRisks(st, su)
    ELSE IF line = "Who: OIC"
    THEN /\ su.current_section = "who"
         /\ su.who_lines = Append(st.who_lines, "OIC")
         /\ SameLists(st, su, {"who"})
         /\ SameRisks(st, su)
    ELSE IF line = "- Belts" /\ st.current_section \in {"controls", "subtask"}
    THEN /\ su.current_section = "controls"
         /\ su.controls_lines = Append(st.controls_lines, line)
         /\ SameLists(st, su, {"controls"})
         /\ SameRisks(st, su)
    ELSE /\ su.current_section = st.current_section
         /\ ListOf(su, st.current_section) = Append(ListOf(st, st.current_section), line)
         /\ SameLists(st, su, {st.current_section})
         /\ SameRisks(st, su)

LineExamined == call.fn = "extract_subtask_rows" /\ pc = "loop" /\ idx < Len(call.lines)

\* C21: every iteration of the line loop applies to its line, in whatever
\* state the loop is (subtask, controls, how, who), the first rule that matches:
\* risk code; How: or Who: prefix (the state becomes how or who, the remainder
\* is captured); dash prefix in state controls or subtask (a control item);
\* else the line is appended to the list of the current state.
C21_FirstMatchingRule ==
    [][LineExamined => FirstRule(Result, call.lines[idx + 1], Result')]_vars

\* a dash-prefixed line in state how was appended to the how lines and is no
\* control item; the risk code after it was taken as the initial risk
C21_Witness ==
    /\ call.fn = "extract_subtask_rows"
    /\ pc = "loop"
    /\ call.lines = <<"How: brief", "- Belts", "H", "- Belts">>
    /\ idx = 3
    /\ Result.how_lines = <<"brief", "- Belts">>
    /\ Result.controls_lines = <<>>
    /\ Result.initial_risk = "H"
    /\ Result.current_section = "controls"

(***************************************************************************)
(* Risk-code lines of a row.                                               *)
(***************************************************************************)
\* the lines of RowLineTexts made of 1 to 3 letters among M/H/L/E
LetterCodeLines == {"H", "EH"}

\* the lines of RowLineTexts that are a single digit
DigitLines == {"5", "7"}

\* the lines of RowLineTexts that are a single digit from 0 to 5
LowDigitLines == {"5"}

FirstPosition(ks) == CHOOSE k \in ks : \A j \in ks : k <= j

SecondPosition(ks) == FirstPosition(ks \ {FirstPosition(ks)})

CodePositions(lines, codes) == {i \in 1..Len(lines) : lines[i] \in codes}

\* the loop stopped at the second line among codes, or at the end of the lines
StopsAtSecond(codes) ==
    (call.fn = "extract_subtask_rows" /\ pc = "done") =>
        IF Cardinality(CodePositions(call.lines, codes)) >= 2
        THEN Result.broke /\ idx + 1 = SecondPosition(CodePositions(call.lines, codes))
        ELSE ~Result.broke /\ idx = Len(call.lines)

RowUpTo(lines, k) == RowOfState(LineLoop(SubSeq(lines, 1, k), 1, LineState0), None, COMMON_HAZARD_PREFIXES).row

\* the levels of the row are the first and the second line among codes, and the
\* row is that of the lines up to the second
LevelsOfRow(codes) ==
    (call.fn = "extract_subtask_rows" /\ pc = "row") =>
        /\ Result.initial_risk_level =
               IF CodePositions(call.lines, codes) = {} THEN None
               ELSE call.lines[FirstPosition(CodePositions(call.lines, codes))]
        /\ Result.residual_risk_level =
               IF Cardinality(CodePositions(call.lines, codes)) < 2 THEN None
               ELSE call.lines[SecondPosition(CodePositions(call.lines, codes))]
        /\ Cardinality(CodePositions(call.lines, codes)) >= 2 =>
               Result = RowUpTo(call.lines, SecondPosition(CodePositions(call.lines, codes)))

MaxControls == 3

ControlLineTexts ==
    {"- Wear belts.", "* PPE", "Check brakes.", "And go!", "and report", "slow  down", " "}

ControlCalls ==
    {[fn |-> "group_controls", lines |-> ls] :
        ls \in UNION {[1..n -> ControlLineTexts] : n \in 1..MaxControls}}

CallGroupControls ==
    /\ call.fn = "group_controls"
    /\ returned = Pending
    /\ returned' = <<GroupControls(call.lines, <<>>, <<>>)>>
    /\ UNCHANGED <<driver, force_ocr, installed, files, order, pc, runs, pdf_files,
                   directories, idx, success_count, dir_id, outdir, conops_outdir, log,
                   skipped, results, exit_code, report, call>>

\* the lines of ControlLineTexts with whitespace runs collapsed and trimmed
CleanedText(l) ==
    CASE l = "slow  down" -> "slow down"
      [] l = " " -> ""
      [] OTHER -> l

BulletLines == {"- Wear belts.", "* PPE"}

\* lines ending in '.', '!' or '?'
SentenceEnds == {"- Wear belts.", "Check brakes.", "And go!"}

CapitalLines == {"Check brakes.", "And go!"}

ConjunctionLines == {"And go!", "and report"}

SentenceBreak(prev, cur) ==
    prev \in SentenceEnds /\ cur \in CapitalLines /\ cur \notin ConjunctionLines

\* the non-empty lines of controls_lines, in order
RECURSIVE NonemptyLines(_)
NonemptyLines(ls) ==
    IF ls = <<>> THEN <<>>
    ELSE IF CleanedText(Head(ls)) = "" THEN NonemptyLines(Tail(ls))
    ELSE <<Head(ls)>> \o NonemptyLines(Tail(ls))

KthOf(S, k) == CHOOSE s \in S : Cardinality({t \in S : t < s}) = k - 1

JoinCleaned(ls, from, to) ==
    Join([i \in 1..(to - from + 1) |-> CleanedText(ls[from + i - 1])], " ")

\* the items of the lines ls, an item starting at line 1 and at the lines of
\* starts
ItemsStartingAt(ls, starts) ==
    [k \in 1..Cardinality(starts) |->
        JoinCleaned(ls, KthOf(starts, k),
                    IF k = Cardinality(starts) THEN Len(ls) ELSE KthOf(starts, k + 1) - 1)]

AlternationStarts(ls) ==
    {i \in 1..Len(ls) :
        \/ i = 1
        \/ (ls[i] \in BulletLines) # (ls[i - 1] \in BulletLines)
        \/ SentenceBreak(ls[i - 1], ls[i])}

BulletStarts(ls) ==
    {i \in 1..Len(ls) :
        \/ i = 1
        \/ ls[i] \in BulletLines
        \/ SentenceBreak(ls[i - 1], ls[i])}

ControlsGrouped == call.fn = "group_controls" /\ returned # Pending

\* C23 (as stated): a control item starts at a line only when the line is a
\* bullet and the previous line is none, or the previous line is a bullet
\* and the line is none, or the previous line ends in '.', '!' or '?' and
\* the line starts with a capital letter and with no coordinating
\* conjunction; every other line is joined to the current item.
C23_NewItemOnAlternation ==
    ControlsGrouped =>
        Result = ItemsStartingAt(NonemptyLines(call.lines), AlternationStarts(NonemptyLines(call.lines)))

\* C23 (amended): a control item starts at a line only when the line is a
\* bullet, whatever the previous line is, or the previous line ends in '.',
\* '!' or '?' and the line starts with a capital letter and with no
\* coordinating conjunction; every other line, a line without bullet after
\* a bullet included, is joined to the current item.
C23_NewItemOnBullet ==
    ControlsGrouped =>
        Result = ItemsStartingAt(NonemptyLines(call.lines), BulletStarts(NonemptyLines(call.lines)))

\* a bullet after a bullet starts an item, the line after it is joined to it
C23_Witness ==
    /\ ControlsGrouped
    /\ call.lines = <<"- Wear belts.", "* PPE", "slow  down">>
    /\ Result = <<"- Wear belts.", "* PPE slow down">>

\* C29: the grouping of the control lines loses and reorders nothing: the
\* control items joined with single spaces are the whitespace-collapsed
\* non-empty control lines joined with single spaces.
C29_GroupingKeepsLines ==
    ControlsGrouped =>
        Join(Result, " ") =
            JoinCleaned(NonemptyLines(call.lines), 1, Len(NonemptyLines(call.lines)))

\* three lines, one of them blank, grouped into two items
C29_Witness ==
    /\ ControlsGrouped
    /\ call.lines = <<"Check brakes.", " ", "Check brakes.">>
    /\ Len(Result) = 2
    /\ Join(Result, " ") = "Check brakes. Check brakes."

(***************************************************************************)
(* Calls of _xml_node_to_obj: a Table1 element with the children           *)
(* call.kids, each with the local name of its tag and its converted value. *)
(***************************************************************************)
MaxChildren == 3

ChildKinds ==
    {[node |-> Leaf("Row1", " a "), local |-> "Row1", value |-> PStr("a")],
     [node |-> Leaf("{urn:x}Row1", None), local |-> "Row1", value |-> PStr("")],
     [node |-> Leaf("Row2", "b"), local |-> "Row2", value |-> PStr("b")],
     [node |-> Elem("Row1", None, <<Leaf("Name", " x ")>>), local |-> "Row1",
      value |-> PDict(<<[k |-> "Name", v |-> PStr("x")]>>)],
     [node |-> Elem("Row2", "t", <<Leaf("Name", "x"), Leaf("{urn:x}Name", None)>>),
      local |-> "Row2",
      value |-> PDict(<<[k |-> "Name", v |-> PList(<<PStr("x"), PStr("")>>)]>>)]}

NodeCalls ==
    {[fn |-> "_xml_node_to_obj", kids |-> ks] :
        ks \in UNION {[1..n -> ChildKinds] : n \in 0..MaxChildren}}

NodeOf(c) == Elem("Table1", " t ", [i \in 1..Len(c.kids) |-> c.kids[i].node])

CallXmlNodeToObj ==
    /\ call.fn = "_xml_node_to_obj"
    /\ returned = Pending
    /\ returned' = <<_xml_node_to_obj(NodeOf(call))>>
    /\ UNCHANGED <<driver, force_ocr, installed, files, order, pc, runs, pdf_files,
                   directories, idx, success_count, dir_id, outdir, conops_outdir, log,
                   skipped, results, exit_code, report, call>>

NodeConverted == call.fn = "_xml_node_to_obj" /\ returned # Pending

ChildrenTagged(kids, tag) == {i \in 1..Len(kids) : kids[i].local = tag}

\* the converted children of kids with the local name tag, in document order
ConvertedOf(kids, tag) ==
    [n \in 1..Cardinality(ChildrenTagged(kids, tag)) |->
        kids[KthOf(ChildrenTagged(kids, tag), n)].value]

\* C24: _xml_node_to_obj gives the trimmed text of a leaf element and, for
\* an element with children, a mapping keyed by the local names of the
\* child tags: a name occurring once maps to the converted child, a name
\* occurring n >= 2 times to the list of the n converted children in
\* document order; no child is dropped or duplicated.
C24_RepeatedTagsBecomeLists ==
    NodeConverted =>
        IF call.kids = <<>> THEN Result = PStr("t")
        ELSE /\ IsDict(Result)
             /\ {Result.items[i].k : i \in 1..Len(Result.items)} =
                    {call.kids[i].local : i \in 1..Len(call.kids)}
             /\ Len(Result.items) = Cardinality({call.kids[i].local : i \in 1..Len(call.kids)})
             /\ \A i \in 1..Len(Result.items) :
                    Result.items[i].v =
                        IF Cardinality(ChildrenTagged(call.kids, Result.items[i].k)) = 1
                        THEN ConvertedOf(call.kids, Result.items[i].k)[1]
                        ELSE PList(ConvertedOf(call.kids, Result.items[i].k))

\* three Row1 children, one with a namespace, one with a child of its own:
\* Row1 maps to the list of the three in document order
C24_Witness ==
    /\ NodeConverted
    /\ Len(call.kids) = 3
    /\ \A i \in 1..3 : call.kids[i].local = "Row1"
    /\ call.kids[1].node = Leaf("Row1", " a ")
    /\ call.kids[2].node = Leaf("{urn:x}Row1", None)
    /\ call.kids[3].value = PDict(<<[k |-> "Name", v |-> PStr("x")]>>)
    /\ Result = PDict(<<[k |-> "Row1",
                         v |-> PList(<<PStr("a"), PStr(""),
                                       PDict(<<[k |-> "Name", v |-> PStr("x")]>>)>>)]>>)

(***************************************************************************)
(* Datasets whose row-group container holds up to MaxRows row elements of  *)
(* two row tags, in every order.                                           *)
(***************************************************************************)
MaxRows == 3

RowElements ==
    {Elem("Row1", None, <<Leaf("Subtask", "Move"), Leaf("Hazard", "Mud")>>),
     Elem("Row1", None, <<Leaf("Hazard", "Heat")>>),
     Elem("Row2", None, <<Leaf("Subtask", "Fire"), Leaf("Hazard", "Noise")>>),
     Elem("Row2", None, <<Leaf("Hazard", "Dust")>>),
     Leaf("Row1", "none")}

RowOrders == UNION {[1..n -> RowElements] : n \in 1..MaxRows}

RowOrderCalls == {PageCall(<<>>, rows, <<>>) : rows \in RowOrders}

\* the text of the child tag of a row element, None without such a child
TextUnder(row, tag) ==
    IF \E i \in 1..Len(row.kids) : row.kids[i].tag = tag
    THEN row.kids[CHOOSE i \in 1..Len(row.kids) : row.kids[i].tag = tag].text
    ELSE None

\* the row elements with children (those converted to mappings), in document order
RECURSIVE MappingRows(_)
MappingRows(rows) ==
    IF rows = <<>> THEN <<>>
    ELSE IF Head(rows).kids = <<>> THEN MappingRows(Tail(rows))
    ELSE <<Head(rows)>> \o MappingRows(Tail(rows))

\* the name of row i of rows after inheritance along rows
NameAlong(rows, i) ==
    IF \E j \in 1..i : TextUnder(rows[j], "Subtask") # None
    THEN TextUnder(rows[CHOOSE j \in 1..i :
                            /\ TextUnder(rows[j], "Subtask") # None
                            /\ \A m \in (j + 1)..i : TextUnder(rows[m], "Subtask") = None],
                   "Subtask")
    ELSE None

RowsMapped ==
    /\ call.fn = "parse_dd2977_xfa"
    /\ call.rows \in RowOrders
    /\ returned # Pending
    /\ IsRecord(Result)

\* C25: the subtasks of the record are the mapping-valued rows of the
\* row-group container in document order, whatever their row tags, each with
\* the name inherited along that order.
C25_RowsInDocumentOrder ==
    RowsMapped =>
        /\ Len(Result.subtasks) = Len(MappingRows(call.rows))
        /\ \A i \in 1..Len(Result.subtasks) :
               /\ Result.subtasks[i].hazard = TextUnder(MappingRows(call.rows)[i], "Hazard")
               /\ Result.subtasks[i].name = NameAlong(MappingRows(call.rows), i)

(***************************************************************************)
(* Rows of extract_subtask_rows whose subtask/hazard text is one line:     *)
(* call.head, followed (when call.body is not empty) by a colon separator  *)
(* and call.body; call.last is the name carried from the rows before it,   *)
(* None in the first row.                                                  *)
(***************************************************************************)
RowHeads == {"Convoy ops", "FIRE watch", "FIRE", "FIRE risk of", "Load"}

RowBodies == {"", "burns", "burns on both hands", "severe burns because of"}

PreviousNames == {None, "Recon"}

SubtaskRowCalls ==
    {[fn |-> "subtask_row", head |-> h, body |-> b, last |-> l] :
        h \in RowHeads, b \in RowBodies, l \in PreviousNames}

SubtaskText(c) == IF c.body = "" THEN c.head ELSE c.head \o ": " \o c.body

\* the row_content of the call: the text, both risk codes and one control
RowContentOf(c) == SubtaskText(c) \o "\nH\n- Belts\nM"

CallParseRow ==
    /\ call.fn = "subtask_row"
    /\ returned = Pending
    /\ returned' = <<ParseRow(RowContentOf(call), call.last, COMMON_HAZARD_PREFIXES).row>>
    /\ UNCHANGED <<driver, force_ocr, installed, files, order, pc, runs, pdf_files,
                   directories, idx, success_count, dir_id, outdir, conops_outdir, log,
                   skipped, results, exit_code, report, call>>

\* a row whose text has no category prefix and no separator
PlainRowParsed == call.fn = "subtask_row" /\ returned # Pending /\ call.body = ""

\* C26 (as stated): every row, first or later, whose subtask/hazard text is
\* one combined string without category prefix and without separator has a
\* null hazard and the full text as its subtask name.
C26_PlainTextIsName ==
    PlainRowParsed => Result.hazard = None /\ Result.name = call.head

\* C26 (amended): such a row has a null hazard and the full text as its
\* subtask name when no subtask name is carried from the rows before it (the
\* first row); when one is carried, the text is the hazard of the row and
\* the carried name its subtask name.
C26_PlainTextByPosition ==
    PlainRowParsed =>
        IF call.last = None
        THEN Result.hazard = None /\ Result.name = call.head
        ELSE Result.hazard = call.head /\ Result.name = call.last

\* a later row with the plain text Convoy ops: the text is its hazard
C26_Witness ==
    /\ PlainRowParsed
    /\ call.head = "Convoy ops"
    /\ call.last = "Recon"
    /\ Result.name = "Recon"
    /\ Result.hazard = "Convoy ops"
    /\ Result.initial_risk_level = "H"

\* a row with a name, a hazard text and a name carried from the rows before it
SplitRowParsed ==
    /\ call.fn = "subtask_row"
    /\ returned # Pending
    /\ call.body # ""
    /\ call.last # None

\* the heads of RowHeads that begin with a word of the hazard vocabulary
HazardHeads == {"FIRE watch", "FIRE", "FIRE risk of"}

\* the bodies of RowBodies of at most two words
ShortBodies == {"burns"}

\* the bodies of RowBodies that end in a connective word
OpenBodies == {"severe burns because of"}

\* C27: a row whose name begins with a word of the hazard vocabulary has the
\* name folded into its hazard text, in front of it exactly when the hazard
\* is short or ends in a connective word, and takes the name of the previous
\* row; a row whose name begins with no such word keeps name and hazard.
C27_NameFoldedIntoHazard ==
    SplitRowParsed =>
        IF call.head \in HazardHeads
        THEN /\ Result.name = call.last
             /\ Contains(Result.hazard, call.head)
             /\ Contains(Result.hazard, call.body)
             /\ (Result.hazard = call.head \o " " \o call.body)
                    <=> (call.body \in ShortBodies \cup OpenBodies)
        ELSE Result.name = call.head /\ Result.hazard = call.body

\* the lines of RowLineTexts that take the loop out of the state subtask
LeavingLines == CodeLines \cup {"How: brief", "Who: OIC", "- Belts"}

\* the lines before the first of the first n lines that leaves the state subtask
LinesBeforeLeaving(lines, n) ==
    SubSeq(lines, 1,
           IF \E i \in 1..n : lines[i] \in LeavingLines
           THEN FirstPosition({i \in 1..n : lines[i] \in LeavingLines}) - 1
           ELSE n)

InLineLoop == call.fn = "extract_subtask_rows" /\ pc \in {"loop", "done"}

\* the subtask/hazard text is made of the lines before the first risk-code,
\* How:/Who: or dash-prefixed line, and the state is subtask until that line
SubtaskLinesLeadTheRow ==
    InLineLoop =>
        /\ Result.subtask_lines = LinesBeforeLeaving(call.lines, idx)
        /\ (Result.current_section = "subtask")
               <=> (\A i \in 1..idx : call.lines[i] \notin LeavingLines)

\* a step of the loop from a state other than subtask
LeftSubtask ==
    /\ InLineLoop
    /\ pc' \in {"loop", "done"}
    /\ Result.current_section # "subtask"

\* C28: in the line loop of extract_subtask_rows the state subtask is only
\* the initial state: no step of the loop returns to it from another state,
\* and the subtask/hazard lines of a row are the lines before its first
\* risk-code, How:/Who: or dash-prefixed line.
C28_SubtaskOnlyInitial ==
    /\ []SubtaskLinesLeadTheRow
    /\ [][LeftSubtask => Result'.current_section # "subtask"]_vars

\* plain lines after a Who: line and after a risk code stay out of the
\* subtask lines
C28_Witness ==
    /\ call.fn = "extract_subtask_rows"
    /\ pc = "done"
    /\ call.lines = <<"Convoy", "Who: OIC", "7", "H">>
    /\ Result.subtask_lines = <<"Convoy">>
    /\ Result.who_lines = <<"OIC", "7">>
    /\ Result.current_section = "controls"

(***************************************************************************)
(* Calls of slugify: the string is written from up to MaxParts parts, words *)
(* and separators; the result holds the slug and the slug of the slug.     *)
(***************************************************************************)
MaxParts == 3

SlugWords == {"Draw", "v2", "draw"}

SlugSeparators == {"-", "--", " ", "_."}

SlugCalls ==
    {[fn |-> "slugify", parts |-> ps] :
        ps \in UNION {[1..n -> SlugWords \cup SlugSeparators] : n \in 0..MaxParts}}

CallSlugify ==
    /\ call.fn = "slugify"
    /\ returned = Pending
    /\ returned' = <<[slug |-> slugify(Concat(call.parts)),
                      again |-> slugify(slugify(Concat(call.parts)))]>>
    /\ UNCHANGED <<driver, force_ocr, installed, files, order, pc, runs, pdf_files,
                   directories, idx, success_count, dir_id, outdir, conops_outdir, log,
                   skipped, results, exit_code, report, call>>

\* the words of SlugWords in lowercase
LowerWord(w) == IF w = "Draw" THEN "draw" ELSE w

\* the runs of words of parts joined by single hyphens: acc is the text so
\* far, gap tells that separators came after it
RECURSIVE RunsOfParts(_, _, _)
RunsOfParts(parts, acc, gap) ==
    IF parts = <<>> THEN acc
    ELSE IF Head(parts) \in SlugSeparators THEN RunsOfParts(Tail(parts), acc, TRUE)
    ELSE RunsOfParts(Tail(parts),
                     IF acc = "" THEN LowerWord(Head(parts))
                     ELSE IF gap THEN acc \o "-" \o LowerWord(Head(parts))
                     ELSE acc \o LowerWord(Head(parts)),
                     FALSE)

SlugChars == {"d", "r", "a", "w", "v", "2", "-"}

Slugified == call.fn = "slugify" /\ returned # Pending

\* C30: slugify returns a non-empty slug, the lowercase alphanumeric runs of
\* its input joined by single hyphens, without leading or trailing hyphen,
\* "draw" for an input without alphanumeric character; slugify of the slug
\* is the slug.
C30_SlugShapeAndIdempotence ==
    Slugified =>
        /\ Result.slug # ""
        /\ Result.slug = IF \A i \in 1..Len(call.parts) : call.parts[i] \in SlugSeparators
                         THEN "draw"
                         ELSE RunsOfParts(call.parts, "", FALSE)
        /\ \A i \in 1..Len(Result.slug) : Ch(Result.slug, i) \in SlugChars
        /\ ~StartsWith(Result.slug, "-")
        /\ ~EndsWith(Result.slug, "-")
        /\ ~Contains(Result.slug, "--")
        /\ Result.again = Result.slug

\* separators before and after a word
C30_Witness ==
    /\ Slugified
    /\ call.parts = <<"_.", "Draw", "--">>
    /\ Result.slug = "draw"
    /\ Result.again = "draw"

FunctionCalls ==
    NormalizeCalls \cup AggregateCalls \cup XfaCalls \cup TextCalls \cup OutpathCalls
        \cup LineLoopCalls \cup ControlCalls \cup NodeCalls \cup RowOrderCalls
        \cup SubtaskRowCalls \cup SlugCalls

FunctionInit ==
    /\ driver = "function"
    /\ force_ocr = FALSE
    /\ installed = {}
    /\ files = {}
    /\ order = <<>>
    /\ pc = "start"
    /\ runs = 0
    /\ pdf_files = <<>>
    /\ directories = <<>>
    /\ idx = 0
    /\ success_count = 0
    /\ dir_id = 1
    /\ outdir = {}
    /\ conops_outdir = {}
    /\ log = <<>>
    /\ skipped = <<>>
    /\ results = <<>>
    /\ exit_code = 0
    /\ report = <<>>
    /\ call \in FunctionCalls
    /\ returned = Pending

FunctionNext ==
    \/ CallNormalizeRiskLevel
    \/ CallCalculateOverallRisk
    \/ CallParseDd2977Xfa
    \/ CallParseDd2977
    \/ CallBuildOutpath
    \/ EnterLineLoop
    \/ LineLoopIteration
    \/ LineLoopExit
    \/ PopulateRow
    \/ CallGroupControls
    \/ CallXmlNodeToObj
    \/ CallParseRow
    \/ CallSlugify

FunctionSpec == FunctionInit /\ [][FunctionNext]_vars

\* The loop keeps running: a step that changes pc or idx is a step of the loop,
\* and one is possible exactly when the loop has not ended.
LoopCanStep == call.fn = "extract_subtask_rows" /\ pc \in {"start", "loop"}

LoopAdvance ==
    /\ LoopCanStep
    /\ pc' \in {"loop", "done"}
    /\ idx' \in 0..(Len(call.lines) + 2)

FunctionFairSpec == FunctionSpec /\ WF_<<pc, idx>>(LoopAdvance)

====
